---- MODULE Spec2Model ----
(***************************************************************************)
(* Model of dashboard/data_preprocessing.py (preprocess_data) of the       *)
(* data-analysis dashboard.  A call of preprocess_data is a sequential     *)
(* program: one action per stage block of the function, in source order.   *)
(*                                                                         *)
(* Numbers are exact: rationals, and rational multiples of a square root   *)
(* where StandardScaler divides by a standard deviation; the float64       *)
(* rounding of MinMaxScaler's arithmetic is modelled bit for bit, and a    *)
(* number records how far rounding took it from its real.  Library calls   *)
(* are modelled by what they compute, with the behaviour of pandas 2 and   *)
(* scikit-learn 1 (fillna(method=...) still fills, is_string_dtype looks   *)
(* at the elements of an object column, get_dummies yields bool columns).  *)
(***************************************************************************)
EXTENDS Integers, Sequences, FiniteSets, TLC

(***************************************************************************)
(* Bounds of the model                                                     *)
(***************************************************************************)
MaxRows == 2
MaxLen == 4
MaxKeys == 2

(***************************************************************************)
(* Cells.  Every cell is a 6-tuple <<kind, n, d, s, r, u>>:                *)
(*   "num"  the float64 that lies u floats above the float64 nearest to    *)
(*          the real (n / d) * sqrt(r): d > 0, n / d in lowest terms, r a  *)
(*          square-free positive integer (r = 1 for a rational, and for 0) *)
(*          and u = 0 unless the rounding of an operation is modelled      *)
(*   "na"   a missing value (NaN / None / NaT)                             *)
(*   "str"  the text s                                                     *)
(*   "dt"   a timestamp, n / d = day number, day 0 being a Monday          *)
(*   "bool" n = 1 for True, 0 for False                                    *)
(*   "bin"  the n-th (0-based) of d equal-width intervals of pd.cut        *)
(* The values of one numeric column are multiples of one square root, so   *)
(* that sums, differences and comparisons stay within the representation.  *)
(***************************************************************************)
Abs(a) == IF a < 0 THEN -a ELSE a

RECURSIVE GCD(_, _)
GCD(a, b) == IF b = 0 THEN a ELSE GCD(b, a % b)

\* the real (n / d) * sqrt(r), r square-free
Real(n, d, r) ==
    LET g == GCD(Abs(n), Abs(d))
        sg == IF d < 0 THEN -1 ELSE 1
    IN  IF n = 0 THEN <<"num", 0, 1, "", 1, 0>>
        ELSE <<"num", sg * (n \div g), sg * (d \div g), "", r, 0>>

Num(n, d) == Real(n, d, 1)
IntCell(n) == <<"num", n, 1, "", 1, 0>>
NA == <<"na", 0, 1, "", 1, 0>>
Str(s) == <<"str", 0, 1, s, 1, 0>>
Dt(day) == <<"dt", day, 1, "", 1, 0>>
Bool(b) == <<"bool", IF b THEN 1 ELSE 0, 1, "", 1, 0>>
Bin(k, nb) == <<"bin", k, nb, "", 1, 0>>

IsNA(c) == c[1] = "na"

\* arithmetic over the least common denominator, to keep the integers small
Den(a, b) == GCD(a[3], b[3])
\* the square root shared by two values of a column
Radicand(a, b) == IF a[2] = 0 THEN b[5] ELSE a[5]
RAdd(a, b) ==
    Real(a[2] * (b[3] \div Den(a, b)) + b[2] * (a[3] \div Den(a, b)),
         a[3] * (b[3] \div Den(a, b)), Radicand(a, b))
RSub(a, b) ==
    Real(a[2] * (b[3] \div Den(a, b)) - b[2] * (a[3] \div Den(a, b)),
         a[3] * (b[3] \div Den(a, b)), Radicand(a, b))
\* sqrt(r) * sqrt(s) = g * sqrt((r / g) * (s / g)), g = gcd(r, s)
RMul(a, b) ==
    LET g == GCD(a[5], b[5])
        p == Num(a[2], b[3])
        q == Num(b[2] * g, a[3])
    IN  Real(p[2] * q[2], p[3] * q[3], (a[5] \div g) * (b[5] \div g))
\* 1 / ((n / d) * sqrt(r)) = (d / (n * r)) * sqrt(r)
RDiv(a, b) == RMul(a, Real(b[3], b[2] * b[5], b[5]))
\* floats near the same real are ordered by their distance u
RLt(a, b) ==
    \/ a[2] * (b[3] \div Den(a, b)) < b[2] * (a[3] \div Den(a, b))
    \/ a[2] = b[2] /\ a[3] = b[3] /\ a[6] < b[6]
RLe(a, b) == ~RLt(b, a)

RECURSIVE Bisect(_, _, _)
\* the least k in lo..hi with k * k >= n
Bisect(n, lo, hi) ==
    IF lo >= hi THEN lo
    ELSE LET mid == (lo + hi) \div 2
         IN  IF mid * mid >= n THEN Bisect(n, lo, mid) ELSE Bisect(n, mid + 1, hi)

\* the largest m whose square divides n (n > 0)
SquarePart(n) ==
    LET top == Bisect(n, 0, IF n < 46340 THEN n ELSE 46340)
        S == { m \in 1..top : m * m <= n /\ n % (m * m) = 0 }
    IN  CHOOSE m \in S : \A o \in S : o <= m

\* the square root of a non-negative rational p / q:
\* sqrt(p) / sqrt(q) = (mp / (mq * q')) * sqrt(p' * q'), p = mp^2 p', q = mq^2 q'
RSqrt(a) ==
    IF a[2] = 0 THEN IntCell(0)
    ELSE LET mp == SquarePart(a[2])
             mq == SquarePart(a[3])
             p1 == a[2] \div (mp * mp)
             q1 == a[3] \div (mq * mq)
         IN  Real(mp, mq * q1, p1 * q1)

(***************************************************************************)
(* float64 arithmetic, for the operations whose rounding is modelled.      *)
(* A natural number is the sequence of its digits in base 2^13, the least  *)
(* significant first, without leading zeros.                               *)
(***************************************************************************)
Base == 8192

RECURSIVE BNorm(_)
BNorm(a) ==
    IF a # << >> /\ a[Len(a)] = 0 THEN BNorm(SubSeq(a, 1, Len(a) - 1)) ELSE a

RECURSIVE BFromInt(_)
BFromInt(n) == IF n = 0 THEN << >> ELSE <<n % Base>> \o BFromInt(n \div Base)

Limb(a, i) == IF i <= Len(a) THEN a[i] ELSE 0

RECURSIVE BAddC(_, _, _, _)
BAddC(a, b, i, c) ==
    IF i > Len(a) /\ i > Len(b) THEN (IF c = 0 THEN << >> ELSE <<c>>)
    ELSE LET t == Limb(a, i) + Limb(b, i) + c
         IN  <<t % Base>> \o BAddC(a, b, i + 1, t \div Base)

BAdd(a, b) == BAddC(a, b, 1, 0)

RECURSIVE BSubC(_, _, _, _)
BSubC(a, b, i, borrow) ==
    IF i > Len(a) THEN << >>
    ELSE LET t == Limb(a, i) - Limb(b, i) - borrow
         IN  IF t < 0 THEN <<t + Base>> \o BSubC(a, b, i + 1, 1)
             ELSE <<t>> \o BSubC(a, b, i + 1, 0)

\* a - b, for a >= b
BSub(a, b) == BNorm(BSubC(a, b, 1, 0))

BLt(a, b) ==
    IF Len(a) # Len(b) THEN Len(a) < Len(b)
    ELSE \E i \in 1..Len(a) :
            /\ a[i] < b[i]
            /\ \A j \in (i + 1)..Len(a) : a[j] = b[j]

RECURSIVE BMulSmallC(_, _, _, _)
BMulSmallC(a, k, i, c) ==
    IF i > Len(a) THEN (IF c = 0 THEN << >> ELSE <<c>>)
    ELSE LET t == a[i] * k + c
         IN  <<t % Base>> \o BMulSmallC(a, k, i + 1, t \div Base)

\* a * k, for k < Base
BMulSmall(a, k) == BNorm(BMulSmallC(a, k, 1, 0))

\* a * Base^j
BShiftLimbs(a, j) == IF a = << >> THEN << >> ELSE [i \in 1..j |-> 0] \o a

RECURSIVE BMulAcc(_, _, _)
\* a times the digits of b from the i-th on
BMulAcc(a, b, i) ==
    IF i > Len(b) THEN << >>
    ELSE IF b[i] = 0 THEN BMulAcc(a, b, i + 1)
    ELSE BAdd(BShiftLimbs(BMulSmall(a, b[i]), i - 1), BMulAcc(a, b, i + 1))

BMul(a, b) == BMulAcc(b, a, 1)

\* a * 2^k
BShl(a, k) == BShiftLimbs(BMulSmall(a, 2 ^ (k % 13)), k \div 13)

RECURSIVE BDivSmallR(_, _, _, _)
\* the digits 1..i of a \div d, rem being the remainder of the higher digits
BDivSmallR(a, d, i, rem) ==
    IF i = 0 THEN << >>
    ELSE LET t == rem * Base + a[i]
         IN  BDivSmallR(a, d, i - 1, t % d) \o <<t \div d>>

\* a \div 2^k
BShr(a, k) ==
    LET high == SubSeq(a, k \div 13 + 1, Len(a))
    IN  BNorm(BDivSmallR(high, 2 ^ (k % 13), Len(high), 0))

\* the number of binary digits of a
BBits(a) ==
    IF a = << >> THEN 0
    ELSE 13 * (Len(a) - 1)
           + (CHOOSE j \in 1..13 : 2 ^ (j - 1) <= a[Len(a)] /\ a[Len(a)] < 2 ^ j)

\* a as an integer, for a < 2^26
BToInt(a) == Limb(a, 1) + Base * Limb(a, 2)

RECURSIVE QuotientDigit(_, _, _)
\* the largest digit q <= guess with d * q <= r
QuotientDigit(r, d, guess) ==
    IF BLt(r, BMulSmall(d, guess)) THEN QuotientDigit(r, d, guess - 1) ELSE guess

RECURSIVE BDiv(_, _, _, _)
\* long division in base 2^13 of r * Base^k by d, for r < d * Base and a
\* divisor whose leading digit is at least Base / 2, so that the quotient of
\* the leading digits is at most two above the digit; q holds the digits
\* found so far, and sticky tells whether the division left a remainder
BDiv(r, d, q, k) ==
    LET lead == (Limb(r, Len(d) + 1) * Base + Limb(r, Len(d))) \div d[Len(d)]
        digit == QuotientDigit(r, d, IF lead >= Base THEN Base - 1 ELSE lead)
        rest == BSub(r, BMulSmall(d, digit))
        q1 == BNorm(<<digit>> \o q)
    IN  IF k = 0 THEN [q |-> q1, sticky |-> rest # << >>]
        ELSE BDiv(BShiftLimbs(rest, 1), d, q1, k - 1)

(***************************************************************************)
(* A float64 is [s, m, e] with the value s * m * 2^e: s is 1 or -1, and m  *)
(* is 0 or has exactly 53 binary digits.  Every operation rounds its exact *)
(* result to the nearest float64, ties to the even mantissa (the values of *)
(* the model stay far from overflow and from the subnormal range).         *)
(***************************************************************************)
FZero == [s |-> 1, m |-> << >>, e |-> 0]

\* the float64 nearest to s * m * 2^e
FRound(s, m, e) ==
    LET n == BBits(m) IN
    IF n = 0 THEN FZero
    ELSE IF n <= 53 THEN [s |-> s, m |-> BShl(m, 53 - n), e |-> e - (53 - n)]
    ELSE LET k == n - 53
             q == BShr(m, k)
             rem == BSub(m, BShl(q, k))
             half == BShl(<<1>>, k - 1)
             up == BLt(half, rem) \/ (rem = half /\ q[1] % 2 = 1)
             q1 == IF up THEN BAdd(q, <<1>>) ELSE q
         IN  IF BBits(q1) = 54 THEN [s |-> s, m |-> BShr(q1, 1), e |-> e + k + 1]
             ELSE [s |-> s, m |-> q1, e |-> e + k]

FromInt(n) == FRound(IF n < 0 THEN -1 ELSE 1, BFromInt(Abs(n)), 0)

FOne == FromInt(1)

FNeg(a) == IF a.m = << >> THEN a ELSE [a EXCEPT !.s = -@]

FMul(a, b) == FRound(a.s * b.s, BMul(a.m, b.m), a.e + b.e)

FAdd(a, b) ==
    IF a.m = << >> THEN b
    ELSE IF b.m = << >> THEN a
    ELSE LET e == IF a.e < b.e THEN a.e ELSE b.e
             x == BShl(a.m, a.e - e)
             y == BShl(b.m, b.e - e)
         IN  IF a.s = b.s THEN FRound(a.s, BAdd(x, y), e)
             ELSE IF BLt(x, y) THEN FRound(b.s, BSub(y, x), e)
             ELSE FRound(a.s, BSub(x, y), e)

FSub(a, b) == FAdd(a, FNeg(b))

\* the number of zero binary digits at the low end of m (m not 0)
RECURSIVE LowZeros(_, _)
LowZeros(m, i) ==
    IF m[i] = 0 THEN 13 + LowZeros(m, i + 1)
    ELSE CHOOSE j \in 0..12 : m[i] % (2 ^ j) = 0 /\ m[i] % (2 ^ (j + 1)) # 0

RECURSIVE BRemSmall(_, _, _, _)
\* a % d, rem being the remainder of the digits above i
BRemSmall(a, d, i, rem) ==
    IF i = 0 THEN rem ELSE BRemSmall(a, d, i - 1, (rem * Base + a[i]) % d)

\* a / b by long division in base 2^13, for a divisor b = odd * 2^t with
\* odd < 2^17: six more digits of a.m / odd, and a sticky digit
FDivShort(a, b, odd, t) ==
    LET n == BShiftLimbs(a.m, 6)
        q == BNorm(BDivSmallR(n, odd, Len(n), 0))
        sticky == BRemSmall(n, odd, Len(n), 0) # 0
    IN  FRound(a.s * b.s, BAdd(BMulSmall(q, 2), IF sticky THEN <<1>> ELSE << >>),
               a.e - b.e - t - 79)

\* a / b by long division: the mantissas, of 53 binary digits, are shifted
\* to 65, which fills five digits of base 2^13; five more digits of the
\* quotient, and a sticky digit
FDivLong(a, b) ==
    LET d == BDiv(BShl(a.m, 12), BShl(b.m, 12), << >>, 5)
    IN  FRound(a.s * b.s,
               BAdd(BMulSmall(d.q, 2), IF d.sticky THEN <<1>> ELSE << >>),
               a.e - b.e - 66)

FDiv(a, b) ==
    IF a.m = << >> THEN FZero
    ELSE LET t == LowZeros(b.m, 1)
         IN  IF t >= 36 THEN FDivShort(a, b, BToInt(BShr(b.m, t)), t)
             ELSE FDivLong(a, b)

\* |a| < |b|, for two floats that are not 0
FMagLt(a, b) == a.e < b.e \/ (a.e = b.e /\ BLt(a.m, b.m))

FLt(a, b) ==
    IF a.m = << >> THEN b.m # << >> /\ b.s = 1
    ELSE IF b.m = << >> THEN a.s = -1
    ELSE IF a.s # b.s THEN a.s = -1
    ELSE IF a.s = 1 THEN FMagLt(a, b) ELSE FMagLt(b, a)

\* 2^52 and 2^53, the bounds of the mantissas
MantMin == BShl(<<1>>, 52)
MantTop == BShl(<<1>>, 53)

\* a - b for two naturals less than 2^26 apart
BDiff(a, b) == IF BLt(a, b) THEN -BToInt(BSub(b, a)) ELSE BToInt(BSub(a, b))

\* the number of float64 steps from z up to y, two floats of the same sign
\* in the same or in neighbouring binades
Ulps(y, z) ==
    IF y.m = << >> /\ z.m = << >> THEN 0
    ELSE y.s * (CASE y.e = z.e -> BDiff(y.m, z.m)
                  [] y.e = z.e + 1 -> BDiff(MantTop, z.m) + BDiff(y.m, MantMin)
                  [] y.e = z.e - 1 -> -(BDiff(MantTop, y.m) + BDiff(z.m, MantMin)))

RECURSIVE FStep(_, _)
\* the float64 u steps above f (f not 0)
FStep(f, u) ==
    IF u = 0 THEN f
    ELSE LET away == (u > 0) = (f.s = 1)
             g == IF away
                  THEN (IF BAdd(f.m, <<1>>) = MantTop
                        THEN [f EXCEPT !.m = MantMin, !.e = @ + 1]
                        ELSE [f EXCEPT !.m = BAdd(@, <<1>>)])
                  ELSE (IF f.m = MantMin
                        THEN [f EXCEPT !.m = BSub(MantTop, <<1>>), !.e = @ - 1]
                        ELSE [f EXCEPT !.m = BSub(@, <<1>>)])
         IN  FStep(g, IF u > 0 THEN u - 1 ELSE u + 1)

\* the float64 held by a rational cell
F64(c) ==
    FStep(IF c[3] = 1 THEN FromInt(c[2]) ELSE FDiv(FromInt(c[2]), FromInt(c[3])), c[6])

\* the cell of the float64 y, q being the real that the operation computes
FromF64(y, q) == <<"num", q[2], q[3], "", q[5], Ulps(y, F64(q))>>

(***************************************************************************)
(* Sequence helpers                                                        *)
(***************************************************************************)
Range(s) == { s[i] : i \in 1..Len(s) }

RECURSIVE SelectIdx(_, _, _)
\* the subsequence of s at the positions i >= from with keep[i]
SelectIdx(s, keep, from) ==
    IF from > Len(s) THEN << >>
    ELSE IF keep[from] THEN <<s[from]>> \o SelectIdx(s, keep, from + 1)
    ELSE SelectIdx(s, keep, from + 1)

NotNA(col) == SelectSeq(col, LAMBDA c : ~IsNA(c))

RECURSIVE SumSeq(_)
SumSeq(s) == IF s = << >> THEN IntCell(0) ELSE RAdd(Head(s), SumSeq(Tail(s)))

\* the texts of the model, in the order Python compares them
Words == <<"Blue sky", "blue", "red">>

WordRank(w) == CHOOSE i \in 1..Len(Words) : Words[i] = w

\* order on cells of one kind, as pandas sorts values: numbers by value,
\* texts lexicographically, the other kinds by their number
CellLt(a, b) ==
    IF a[1] = "str" /\ b[1] = "str" THEN WordRank(a[4]) < WordRank(b[4])
    ELSE RLt(a, b)

Sorted(col) == SortSeq(col, CellLt)

Min(col) == Sorted(col)[1]
Max(col) == Sorted(col)[Len(col)]

(***************************************************************************)
(* DataFrame: ordered columns (name, dtype, values) over a row index.      *)
(* index holds the row labels, which survive the removal of rows.          *)
(***************************************************************************)
DataFrame(columns, dtypes, data, index) ==
    [columns |-> columns, dtypes |-> dtypes, data |-> data, index |-> index]

NRows(df) == Len(df.index)

\* col in df.columns
ColIn(df, col) == \E i \in 1..Len(df.columns) : df.columns[i] = col

ColPos(df, col) ==
    CHOOSE i \in 1..Len(df.columns) :
        /\ df.columns[i] = col
        /\ \A j \in 1..(i - 1) : df.columns[j] # col

\* df[col]
Column(df, col) == df.data[ColPos(df, col)]

\* df[col].dtype
DType(df, col) == df.dtypes[ColPos(df, col)]

\* df[col] = values : replaces the column in place, or appends a new one
SetColumn(df, col, values, dtype) ==
    IF ColIn(df, col)
    THEN [df EXCEPT !.data[ColPos(df, col)] = values,
                    !.dtypes[ColPos(df, col)] = dtype]
    ELSE [df EXCEPT !.columns = Append(@, col),
                    !.dtypes = Append(@, dtype),
                    !.data = Append(@, values)]

\* df[mask] : the rows whose mask entry is TRUE, in their order
SelectRows(df, mask) ==
    [df EXCEPT !.index = SelectIdx(df.index, mask, 1),
               !.data = [i \in 1..Len(df.data) |-> SelectIdx(df.data[i], mask, 1)]]

\* df.drop(cols, axis=1)
DropColumns(df, cols) ==
    LET keep == [i \in 1..Len(df.columns) |-> df.columns[i] \notin cols]
    IN  [df EXCEPT !.columns = SelectIdx(df.columns, keep, 1),
                   !.dtypes = SelectIdx(df.dtypes, keep, 1),
                   !.data = SelectIdx(df.data, keep, 1)]

HasNA(col) == \E i \in 1..Len(col) : IsNA(col[i])

(***************************************************************************)
(* Statistics of a column, as pandas computes them (missing values are     *)
(* skipped; the statistic of no value at all is NaN).                      *)
(***************************************************************************)
\* a cell of the kind of c holding the rational r
AsKind(c, r) == <<c[1], r[2], r[3], "", r[5], 0>>

\* Series.mean()
Mean(col) ==
    LET v == NotNA(col)
    IN  IF v = << >> THEN NA
        ELSE AsKind(v[1], RDiv(SumSeq(v), IntCell(Len(v))))

\* Series.median()
Median(col) ==
    LET v == Sorted(NotNA(col))
        n == Len(v)
    IN  IF n = 0 THEN NA
        ELSE IF n % 2 = 1 THEN v[(n + 1) \div 2]
        ELSE AsKind(v[1], RDiv(RAdd(v[n \div 2], v[n \div 2 + 1]), IntCell(2)))

Count(col, c) == Cardinality({ i \in 1..Len(col) : col[i] = c })

RECURSIVE Dedup(_)
\* a sorted sequence without its repetitions
Dedup(s) ==
    IF Len(s) <= 1 THEN s
    ELSE IF s[1] = s[2] THEN Dedup(Tail(s))
    ELSE <<s[1]>> \o Dedup(Tail(s))

\* Series.mode() : the most frequent non-missing values, in ascending order
Mode(col) ==
    LET v == NotNA(col)
    IN  Dedup(Sorted(SelectSeq(v, LAMBDA c : \A o \in Range(v) : Count(v, o) <= Count(v, c))))

\* Series.quantile(q), q = qn/4 : linear interpolation between the order
\* statistics around position (n - 1) * q
Quantile(col, qn) ==
    LET v == Sorted(NotNA(col))
        n == Len(v)
        lo == ((n - 1) * qn) \div 4
        fr == ((n - 1) * qn) % 4
    IN  IF n = 0 THEN NA
        ELSE IF fr = 0 THEN v[lo + 1]
        ELSE RAdd(v[lo + 1], RMul(RSub(v[lo + 2], v[lo + 1]), Num(fr, 4)))

RECURSIVE FFill(_, _)
\* Series.fillna(method='ffill') : last carries the latest value seen
FFill(col, last) ==
    IF col = << >> THEN << >>
    ELSE IF IsNA(Head(col)) THEN <<last>> \o FFill(Tail(col), last)
    ELSE <<Head(col)>> \o FFill(Tail(col), Head(col))

Reverse(s) == [i \in 1..Len(s) |-> s[Len(s) + 1 - i]]

\* Series.fillna(method='bfill')
BFill(col) == Reverse(FFill(Reverse(col), NA))

\* Series.fillna(value)
FillNA(col, value) == [i \in 1..Len(col) |-> IF IsNA(col[i]) THEN value ELSE col[i]]

\* the column holding one scalar in every row
Broadcast(col, value) == [i \in 1..Len(col) |-> value]

(***************************************************************************)
(* The activation of preprocess_data.                                      *)
(*   df            the caller's dataset object                             *)
(*   processed_df  the local variable of that name                         *)
(*   shared        processed_df refers to the caller's object              *)
(*   status        "running", "returned" or "raised"; exc the exception    *)
(*   printed       number of messages written by print                     *)
(*   ran           the stage blocks whose body was entered, in order       *)
(***************************************************************************)
Frame(df, processed_df, shared) ==
    [df |-> df, processed_df |-> processed_df, shared |-> shared,
     status |-> "running", exc |-> "", printed |-> 0, ran |-> << >>]

\* the assignment written on the parameter df instead of the copy
AssignToCaller(fr, col, values, dtype) ==
    [fr EXCEPT !.processed_df = SetColumn(@, col, values, dtype),
               !.df = IF ColIn(@, col) THEN SetColumn(@, col, values, dtype) ELSE @]

\* processed_df[col] = values : item assignment on the object
Assign(fr, col, values, dtype) ==
    LET new == SetColumn(fr.processed_df, col, values, dtype)
    IN  [fr EXCEPT !.processed_df = new,
                   !.df = IF fr.shared THEN new ELSE @]

\* processed_df = new : the local name is bound to a new object
Rebind(fr, new) == [fr EXCEPT !.processed_df = new, !.shared = FALSE]

Raise(fr, e) == [fr EXCEPT !.status = "raised", !.exc = e]

Enter(fr, stage) == [fr EXCEPT !.ran = Append(@, stage)]

\* 'key' in config and config[key]
HasKey(config, key) == key \in Range(config.order)

\* processed_df = df : no copy, the local name refers to the caller's object
DataFrameAlias(df) == Frame(df, df, TRUE)

\* line 23: processed_df = df.copy()
DataFrameCopy(df) == Frame(df, df, FALSE)

(***************************************************************************)
(* lines 25-33: convert_types.  dtype is not defined, so the body of the   *)
(* try raises NameError for every column, which the except clause prints.  *)
(***************************************************************************)
convert_types(fr, config) ==
    IF HasKey(config, "convert_types") /\ config.convert_types
    THEN [Enter(fr, "convert_types") EXCEPT
              !.printed = @ + Len(fr.processed_df.columns)]
    ELSE fr

(***************************************************************************)
(* lines 35-51: handle_missing                                             *)
(***************************************************************************)
\* the guard of line 37 without its test of the column's presence
MissingGuardAnyColumn(df, col) == ColIn(df, col) => HasNA(Column(df, col))

\* line 37
MissingGuard(df, col) == ColIn(df, col) /\ HasNA(Column(df, col))

\* dropna() without subset: the rows with a missing value in any column go
DropNAAnyColumn(df, col) ==
    SelectRows(df, [i \in 1..NRows(df) |-> \A k \in 1..Len(df.data) : ~IsNA(df.data[k][i])])

\* line 39: dropna(subset=[col])
DropNA(df, col) ==
    SelectRows(df, [i \in 1..NRows(df) |-> ~IsNA(Column(df, col)[i])])

\* what the numeric reductions raise on a column of texts
Reducible(col) == \A c \in Range(NotNA(col)) : c[1] # "str"

\* lines 38-51, one entry of the mapping
MissingEntry(fr, col, method) ==
    LET pdf == fr.processed_df IN
    IF ~MissingGuard(pdf, col) THEN fr
    ELSE IF ~ColIn(pdf, col) THEN Raise(fr, "KeyError")
    ELSE LET c == Column(pdf, col)
             dt == DType(pdf, col)
         IN
         IF method = "drop"
         THEN Rebind(fr, DropNA(pdf, col))
         ELSE IF method = "mean"
         THEN IF Reducible(c) THEN Assign(fr, col, FillNA(c, Mean(c)), dt)
              ELSE Raise(fr, "TypeError")
         ELSE IF method = "median"
         \* fillna(column) changes nothing; .median() of it is a scalar,
         \* which the assignment broadcasts to every row
         THEN IF Reducible(c)
              THEN Assign(fr, col, Broadcast(c, Median(c)),
                          IF dt = "datetime64" THEN dt ELSE "float64")
              ELSE Raise(fr, "TypeError")
         ELSE IF method = "mode"
         THEN IF Mode(c) = << >> THEN Raise(fr, "KeyError")
              ELSE Assign(fr, col, FillNA(c, Mode(c)[1]), dt)
         ELSE IF method = "zero"
         \* processed.df : the name processed is not defined
         THEN Raise(fr, "NameError")
         ELSE IF method = "forward"
         THEN Assign(fr, col, FFill(c, NA), dt)
         ELSE IF method = "backward"
         THEN Assign(fr, col, BFill(c), dt)
         ELSE fr

RECURSIVE MissingLoop(_, _, _)
\* line 36: for col, method in config['handle_missing'].items()
MissingLoop(fr, items, i) ==
    IF i > Len(items) \/ fr.status # "running" THEN fr
    ELSE MissingLoop(MissingEntry(fr, items[i][1], items[i][2]), items, i + 1)

handle_missing(fr, config) ==
    IF HasKey(config, "handle_missing") /\ config.handle_missing # << >>
    THEN MissingLoop(Enter(fr, "handle_missing"), config.handle_missing, 1)
    ELSE fr

(***************************************************************************)
(* lines 53-69: handle_outliers                                            *)
(***************************************************************************)
\* line 55
OutlierGuard(df, col) ==
    ColIn(df, col) /\ DType(df, col) \in {"float64", "int64"}

\* lines 57-61 and 64-68; both bounds are NaN when the column has no value
Q1(col) == Quantile(col, 1)
Q3(col) == Quantile(col, 3)
IQR(col) == RSub(Q3(col), Q1(col))
lower_bound(col) ==
    IF NotNA(col) = << >> THEN NA
    ELSE RSub(Q1(col), RMul(Num(3, 2), IQR(col)))
upper_bound(col) ==
    IF NotNA(col) = << >> THEN NA
    ELSE RAdd(Q3(col), RMul(Num(3, 2), IQR(col)))

\* a clip that forgets the lower bound
ClipUpperOnly(col, lower, upper) ==
    [i \in 1..Len(col) |->
        IF IsNA(col[i]) \/ IsNA(lower) THEN col[i]
        ELSE IF RLt(upper, col[i]) THEN upper
        ELSE col[i]]

\* Series.clip(lower, upper) : a NaN bound clips nothing, NaN stays NaN
Clip(col, lower, upper) ==
    [i \in 1..Len(col) |->
        IF IsNA(col[i]) \/ IsNA(lower) THEN col[i]
        ELSE IF RLt(col[i], lower) THEN lower
        ELSE IF RLt(upper, col[i]) THEN upper
        ELSE col[i]]

\* an int64 column becomes float64 when a fractional value is stored in it
ClippedDType(dtype, col) ==
    IF \E c \in Range(col) : c[1] = "num" /\ c[3] # 1 THEN "float64" ELSE dtype

\* the comparisons of line 69 written with < and >
InBoundsStrict(c, lower, upper) ==
    /\ ~IsNA(c)
    /\ ~IsNA(lower)
    /\ RLt(lower, c)
    /\ RLt(c, upper)

\* a mask that lets the missing values pass
InBoundsOrMissing(c, lower, upper) ==
    \/ IsNA(c)
    \/ /\ ~IsNA(lower)
       /\ RLe(lower, c)
       /\ RLe(c, upper)

\* line 69: (col >= lower_bound) & (col <= upper_bound); a comparison with
\* NaN is False
InBounds(c, lower, upper) ==
    /\ ~IsNA(c)
    /\ ~IsNA(lower)
    /\ RLe(lower, c)
    /\ RLe(c, upper)

\* the entry with the bounds of line 64-68 taken from the column of df, the
\* dataset as it was passed in, instead of processed_df
OutlierEntryBoundsOfInput(fr, col, method) ==
    LET pdf == fr.processed_df IN
    IF ~OutlierGuard(pdf, col) THEN fr
    ELSE LET c == Column(pdf, col)
             lb == lower_bound(Column(fr.df, col))
             ub == upper_bound(Column(fr.df, col))
         IN
         IF method = "clip"
         THEN Assign(fr, col, Clip(c, lb, ub),
                     ClippedDType(DType(pdf, col), Clip(c, lb, ub)))
         ELSE IF method = "remove"
         THEN Rebind(fr, SelectRows(pdf, [i \in 1..Len(c) |-> InBounds(c[i], lb, ub)]))
         ELSE fr

\* lines 56-69, one entry of the mapping
OutlierEntry(fr, col, method) ==
    LET pdf == fr.processed_df IN
    IF ~OutlierGuard(pdf, col) THEN fr
    ELSE IF ~ColIn(pdf, col) THEN Raise(fr, "KeyError")
    ELSE LET c == Column(pdf, col)
             lb == lower_bound(c)
             ub == upper_bound(c)
         IN
         IF method = "clip"
         THEN Assign(fr, col, Clip(c, lb, ub),
                     ClippedDType(DType(pdf, col), Clip(c, lb, ub)))
         ELSE IF method = "remove"
         THEN Rebind(fr, SelectRows(pdf, [i \in 1..Len(c) |-> InBounds(c[i], lb, ub)]))
         ELSE fr

RECURSIVE OutlierLoop(_, _, _)
\* line 54: for col, method in config['handle_outliers'].items()
OutlierLoop(fr, items, i) ==
    IF i > Len(items) \/ fr.status # "running" THEN fr
    ELSE OutlierLoop(OutlierEntry(fr, items[i][1], items[i][2]), items, i + 1)

handle_outliers(fr, config) ==
    IF HasKey(config, "handle_outliers") /\ config.handle_outliers # << >>
    THEN OutlierLoop(Enter(fr, "handle_outliers"), config.handle_outliers, 1)
    ELSE fr

(***************************************************************************)
(* lines 71-89: scaling                                                    *)
(***************************************************************************)
\* select_dtypes(include=[np.number]).columns.tolist()
NumericCols(df) ==
    SelectIdx(df.columns,
              [i \in 1..Len(df.columns) |-> df.dtypes[i] \in {"float64", "int64", "int32"}], 1)

\* line 75: config['scaling'].get('columns', numeric_cols)
ScalingColumns(df, scaling) ==
    IF scaling.has_columns THEN scaling.columns ELSE NumericCols(df)

\* line 77 without its use of the configured columns
ValidColsAllNumeric(df, scaling) == NumericCols(df)

\* line 77
ValidCols(df, scaling) ==
    SelectSeq(ScalingColumns(df, scaling), LAMBDA col : col \in Range(NumericCols(df)))

KnownMethods == {"standard", "minmax", "robust"}

\* StandardScaler: (x - mean) / sqrt(variance), variance with ddof = 0; a
\* zero variance scales by 1
StandardScale(col) ==
    LET v == NotNA(col)
        m == Mean(col)
        dev == [i \in 1..Len(v) |-> RMul(RSub(v[i], m), RSub(v[i], m))]
        var == RDiv(SumSeq(dev), IntCell(Len(v)))
    IN  [i \in 1..Len(col) |->
            IF IsNA(col[i]) \/ v = << >> THEN NA
            ELSE IF var[2] = 0 THEN RSub(col[i], m)
            ELSE RDiv(RSub(col[i], m), RSqrt(var))]

\* MinMaxScaler with feature_range (0, 1), in float64 as scikit-learn
\* computes it: scale_ = 1 / (max - min), min_ = 0 - min * scale_, and the
\* result is x * scale_ + min_; a range below 10 * eps scales by 1
MinMaxScale(col) ==
    LET v == NotNA(col)
        data_min == F64(Min(v))
        data_range == FSub(F64(Max(v)), data_min)
        scale_ == IF FLt(data_range, FRound(1, <<10>>, -52)) THEN FOne
                  ELSE FDiv(FOne, data_range)
        min_ == FSub(FZero, FMul(data_min, scale_))
        range == RSub(Max(v), Min(v))
        real(x) == IF range[2] = 0 THEN RSub(x, Min(v))
                   ELSE RDiv(RSub(x, Min(v)), range)
    IN  [i \in 1..Len(col) |->
            IF IsNA(col[i]) \/ v = << >> THEN NA
            ELSE FromF64(FAdd(FMul(F64(col[i]), scale_), min_), real(col[i]))]

\* RobustScaler: (x - median) / (q75 - q25); a zero range scales by 1
RobustScale(col) ==
    LET v == NotNA(col)
        md == Median(col)
        range == IQR(col)
    IN  [i \in 1..Len(col) |->
            IF IsNA(col[i]) \/ v = << >> THEN NA
            ELSE IF range[2] = 0 THEN RSub(col[i], md)
            ELSE RDiv(RSub(col[i], md), range)]

\* scaler.fit_transform of one column
FitTransform(method, col) ==
    IF method = "standard" THEN StandardScale(col)
    ELSE IF method = "minmax" THEN MinMaxScale(col)
    ELSE RobustScale(col)

RECURSIVE AssignScaled(_, _, _, _)
\* line 89: processed_df[valid_cols] = scaler.fit_transform(...)
AssignScaled(fr, method, cols, i) ==
    IF i > Len(cols) THEN fr
    ELSE AssignScaled(
             Assign(fr, cols[i],
                    FitTransform(method, Column(fr.processed_df, cols[i])), "float64"),
             method, cols, i + 1)

\* an unrecognized method that only skips the scaling
UnknownMethodSkips(fr) == fr

\* lines 80-87: what an unrecognized method does
UnknownMethod(fr) == [fr EXCEPT !.status = "returned"]

scaling(fr, config) ==
    IF HasKey(config, "scaling")
    THEN LET f == Enter(fr, "scaling")
             valid_cols == ValidCols(fr.processed_df, config.scaling)
         IN  IF valid_cols = << >> THEN f
             ELSE IF config.scaling.method \notin KnownMethods THEN UnknownMethod(f)
             \* check_array refuses an array with no sample
             ELSE IF NRows(fr.processed_df) = 0 THEN Raise(f, "ValueError")
             ELSE AssignScaled(f, config.scaling.method, valid_cols, 1)
    ELSE fr

(***************************************************************************)
(* lines 91-131: feature_engineering                                       *)
(***************************************************************************)
\* Calendar of the timestamps of the model: day 0 is Monday 2024-01-01 and
\* the days stay within 2024.  MonthStart[m] is the day number of the 1st
\* of month m.
MonthStart == <<0, 31, 60, 91, 121, 152, 182, 213, 244, 274, 305, 335, 366>>

DayNo(c) == c[2] \div c[3]
Year(c) == 2024
Month(c) == CHOOSE m \in 1..12 : MonthStart[m] <= DayNo(c) /\ DayNo(c) < MonthStart[m + 1]
Day(c) == DayNo(c) - MonthStart[Month(c)] + 1
\* the day of the week counted from Sunday
WeekdaySundayFirst(c) == (DayNo(c) + 1) % 7

\* Series.dt.weekday : Monday is 0, Sunday is 6
Weekday(c) == DayNo(c) % 7
Quarter(c) == (Month(c) - 1) \div 3 + 1

DatetimeComponents == <<"year", "month", "day", "weekday", "quarter", "is_weekend">>

\* the value of one component for one timestamp; NaT gives NaN, and NaN >= 5
\* is False
Component(name, c) ==
    IF name = "is_weekend"
    THEN IntCell(IF ~IsNA(c) /\ Weekday(c) >= 5 THEN 1 ELSE 0)
    ELSE IF IsNA(c) THEN NA
    ELSE IF name = "year" THEN IntCell(Year(c))
    ELSE IF name = "month" THEN IntCell(Month(c))
    ELSE IF name = "day" THEN IntCell(Day(c))
    ELSE IF name = "weekday" THEN IntCell(Weekday(c))
    ELSE IntCell(Quarter(c))

ComponentDType(name, col) ==
    IF name = "is_weekend" THEN "int64"
    ELSE IF HasNA(col) THEN "float64"
    ELSE "int32"

RECURSIVE DatetimeFeatures(_, _, _, _)
\* lines 97-113: the requested components, in the order of the source
DatetimeFeatures(fr, col, wanted, i) ==
    IF i > Len(DatetimeComponents) THEN fr
    ELSE LET name == DatetimeComponents[i]
             c == Column(fr.processed_df, col)
         IN  DatetimeFeatures(
                 IF name \in Range(wanted)
                 THEN Assign(fr, col \o "_" \o name,
                             [k \in 1..Len(c) |-> Component(name, c[k])],
                             ComponentDType(name, c))
                 ELSE fr,
                 col, wanted, i + 1)

\* the guard of line 114 without its test of the dtype
BinningGuardAnyDType(df, col) == TRUE

\* line 114
BinningGuard(df, col) == DType(df, col) \in {"float64", "int64"}

\* pd.cut(x, bins=n_bins) : n_bins equal-width right-closed intervals over
\* [min, max]; the lowest edge is moved down by 0.1% of the range, and a
\* column of one value gets the range [v - 0.1%, v + 0.1%].  The result is
\* the 0-based number of the interval of each value.
Cut(col, n_bins) ==
    LET v == NotNA(col)
        mn == Min(v)
        mx == Max(v)
        pad == IF mn[2] = 0 THEN Num(1, 1000)
               ELSE RMul(Num(1, 1000), Real(Abs(mn[2]), mn[3], mn[5]))
        lo == IF mn = mx THEN RSub(mn, pad) ELSE mn
        hi == IF mn = mx THEN RAdd(mx, pad) ELSE mx
        Edge(k) == RAdd(lo, RMul(Num(k, n_bins), RSub(hi, lo)))
    IN  [i \in 1..Len(col) |->
            IF IsNA(col[i]) THEN NA
            ELSE Bin((CHOOSE k \in 1..n_bins :
                         /\ k = 1 \/ RLt(Edge(k - 1), col[i])
                         /\ RLe(col[i], Edge(k))) - 1, n_bins)]

\* lines 115-121
Binning(fr, col, binning) ==
    LET c == Column(fr.processed_df, col)
        n_bins == IF binning.has_n_bins THEN binning.n_bins ELSE 5
    IN  \* pd.cut cannot take the minimum of texts or timestamps as a number
        IF \E v \in Range(c) : v[1] \notin {"num", "na"} THEN Raise(fr, "TypeError")
        ELSE IF n_bins < 1 \/ NotNA(c) = << >> THEN Raise(fr, "ValueError")
        ELSE Assign(fr, col \o "_bin", Cut(c, n_bins), "category")

\* pd.api.types.is_string_dtype(series), pandas 2: an object column all of
\* whose elements are texts, and that has at least one
IsStringDType(df, col) ==
    /\ DType(df, col) = "object"
    /\ Column(df, col) # << >>
    /\ \A c \in Range(Column(df, col)) : c[1] = "str"

\* str.len() and str.split().str.len() of the texts of the model
StrLen(w) == CASE w = "Blue sky" -> 8 [] w = "blue" -> 4 [] w = "red" -> 3
WordCount(w) == CASE w = "Blue sky" -> 2 [] w = "blue" -> 1 [] w = "red" -> 1

\* lines 124-131
TextFeatures(fr, col, features) ==
    LET c == Column(fr.processed_df, col)
        \* line 124 reads features['text-features']
        f1 == IF "text-features" \notin features.keys THEN Raise(fr, "KeyError")
              ELSE IF "length" \in Range(features.text_dash_features)
              THEN Assign(fr, col \o "_length",
                          [k \in 1..Len(c) |-> IntCell(StrLen(c[k][4]))], "int64")
              ELSE fr
        f2 == IF f1.status = "running" /\ "word_count" \in Range(features.text_features)
              THEN Assign(f1, col \o "_word_count",
                          [k \in 1..Len(c) |-> IntCell(WordCount(c[k][4]))], "int64")
              ELSE f1
    IN  \* line 131: neither item nor new_col is defined
        IF f2.status = "running" /\ "contains" \in Range(features.text_features)
        THEN Raise(f2, "NameError")
        ELSE f2

\* lines 94-131, one entry of the mapping
FeatureEntry(fr, col, features) ==
    IF ~ColIn(fr.processed_df, col) THEN fr
    ELSE LET f1 == IF /\ "datetime_features" \in features.keys
                      /\ DType(fr.processed_df, col) = "datetime64"
                   THEN DatetimeFeatures(fr, col, features.datetime_features, 1)
                   ELSE fr
             f2 == IF "binning" \in features.keys /\ BinningGuard(f1.processed_df, col)
                   THEN Binning(f1, col, features.binning)
                   ELSE f1
         IN  IF /\ f2.status = "running"
                /\ "text_features" \in features.keys
                /\ IsStringDType(f2.processed_df, col)
             THEN TextFeatures(f2, col, features)
             ELSE f2

RECURSIVE FeatureLoop(_, _, _)
\* line 93: for col, features in config['feature_engineering'].items()
FeatureLoop(fr, items, i) ==
    IF i > Len(items) \/ fr.status # "running" THEN fr
    ELSE FeatureLoop(FeatureEntry(fr, items[i][1], items[i][2]), items, i + 1)

feature_engineering(fr, config) ==
    IF HasKey(config, "feature_engineering") /\ config.feature_engineering # << >>
    THEN FeatureLoop(Enter(fr, "feature_engineering"), config.feature_engineering, 1)
    ELSE fr

(***************************************************************************)
(* lines 133-143: encoding                                                 *)
(***************************************************************************)
\* the digits of k / 1000 without trailing zeros (k in 1..999)
Millis(k) ==
    IF k % 100 = 0 THEN ToString(k \div 100)
    ELSE IF k % 10 = 0 THEN (IF k < 100 THEN "0" ELSE "") \o ToString(k \div 10)
    ELSE (IF k < 10 THEN "00" ELSE IF k < 100 THEN "0" ELSE "") \o ToString(k)

\* str(value) of a category, as it appears in the name of its indicator
\* column: texts as they are, integers of an int column as 3, floats as 3.0
\* or 8.5 (decimal up to three places; any other number is written as its
\* fraction, and as fraction*sqrt(r) when it is irrational), timestamps as
\* 2024-01-06 00:00:00
NominalName(c, dtype) ==
    IF c[1] = "str" THEN c[4]
    \* str(Timestamp) of a day without time of day
    ELSE IF c[1] = "dt"
    THEN ToString(Year(c)) \o "-" \o (IF Month(c) < 10 THEN "0" ELSE "") \o ToString(Month(c))
         \o "-" \o (IF Day(c) < 10 THEN "0" ELSE "") \o ToString(Day(c)) \o " 00:00:00"
    ELSE IF c[5] # 1
    THEN ToString(c[2]) \o "/" \o ToString(c[3]) \o "*sqrt(" \o ToString(c[5]) \o ")"
    ELSE IF c[1] = "num" /\ c[3] = 1
    THEN ToString(c[2]) \o (IF dtype = "float64" THEN ".0" ELSE "")
    ELSE IF c[1] = "num" /\ 1000 % c[3] = 0
    THEN (IF c[2] < 0 THEN "-" ELSE "") \o ToString(Abs(c[2]) \div c[3]) \o "."
         \o Millis((Abs(c[2]) % c[3]) * (1000 \div c[3]))
    ELSE ToString(c[2]) \o "/" \o ToString(c[3])

\* a float off the nearest one by u steps has other digits: the name tells u
CategoryName(c, dtype) ==
    IF c[6] = 0 THEN NominalName(c, dtype)
    ELSE NominalName(c, dtype) \o (IF c[6] > 0 THEN "+" ELSE "") \o ToString(c[6]) \o "ulp"

RECURSIVE Concat(_, _, _, _, _)
\* pd.concat([df, dummies], axis=1) : one indicator column per category
Concat(df, prefix, col, cats, i) ==
    IF i > Len(cats) THEN df
    ELSE Concat([df EXCEPT !.columns = Append(@, prefix \o "_" \o
                                                CategoryName(cats[i], DType(df, prefix))),
                           !.dtypes = Append(@, "bool"),
                           !.data = Append(@, [k \in 1..Len(col) |-> Bool(col[k] = cats[i])])],
                prefix, col, cats, i + 1)

\* the categories without the removal of the repeated values
ObservedValues(col) == Sorted(NotNA(col))

\* pd.get_dummies(df[col], prefix=col) : the categories are the distinct
\* non-missing values in ascending order
Categories(col) == Dedup(Sorted(NotNA(col)))

\* lines 136-143, one entry of the mapping
EncodingEntry(fr, col, method) ==
    LET pdf == fr.processed_df IN
    IF ~ColIn(pdf, col) THEN fr
    ELSE IF method = "onehot"
    THEN Rebind(fr, DropColumns(
                        Concat(pdf, col, Column(pdf, col), Categories(Column(pdf, col)), 1),
                        {col}))
    ELSE IF method = "label"
    \* col.astype : col is the column name, a str
    THEN Raise(fr, "AttributeError")
    ELSE fr

RECURSIVE EncodingLoop(_, _, _)
\* line 134: for col, method in config['encoding'].items()
EncodingLoop(fr, items, i) ==
    IF i > Len(items) \/ fr.status # "running" THEN fr
    ELSE EncodingLoop(EncodingEntry(fr, items[i][1], items[i][2]), items, i + 1)

encoding(fr, config) ==
    IF HasKey(config, "encoding") /\ config.encoding # << >>
    THEN EncodingLoop(Enter(fr, "encoding"), config.encoding, 1)
    ELSE fr

(***************************************************************************)
(* lines 145-147: drop_columns                                             *)
(***************************************************************************)
\* line 146 without its test of the presence of the columns
NamedColumns(df, names) == Range(names)

\* line 146
cols_to_drop(df, names) == { col \in Range(names) : ColIn(df, col) }

\* line 147: DataFrame.drop raises KeyError for a label that is not a column
drop_columns(fr, config) ==
    IF HasKey(config, "drop_columns") /\ config.drop_columns # << >>
    THEN LET f == Enter(fr, "drop_columns")
             cols == cols_to_drop(fr.processed_df, config.drop_columns)
         IN  IF \E col \in cols : ~ColIn(fr.processed_df, col) THEN Raise(f, "KeyError")
             ELSE Rebind(f, DropColumns(fr.processed_df, cols))
    ELSE fr

(***************************************************************************)
(* lines 6-149: the whole call, as a function of its arguments             *)
(***************************************************************************)
Stages ==
    <<"convert_types", "handle_missing", "handle_outliers", "scaling",
      "feature_engineering", "encoding", "drop_columns">>

\* the stage block at position i of the function body
RunStage(i, fr, config) ==
    IF fr.status # "running" THEN fr
    ELSE CASE i = 1 -> convert_types(fr, config)
           [] i = 2 -> handle_missing(fr, config)
           [] i = 3 -> handle_outliers(fr, config)
           [] i = 4 -> scaling(fr, config)
           [] i = 5 -> feature_engineering(fr, config)
           [] i = 6 -> encoding(fr, config)
           [] i = 7 -> drop_columns(fr, config)

\* the one element of a set of one element
TheOne(S) == CHOOSE v \in S : TRUE

RECURSIVE RunFrom(_, _, _)
\* the blocks from position i on, each on the frame that the one before it
\* has left
RunFrom(i, fr, config) ==
    IF i > Len(Stages) THEN fr
    ELSE TheOne({ RunFrom(i + 1, after, config) : after \in { RunStage(i, fr, config) } })

\* line 149: return processed_df
Return(fr) == IF fr.status = "running" THEN [fr EXCEPT !.status = "returned"] ELSE fr

preprocess_data(df, config) == Return(RunFrom(1, DataFrameCopy(df), config))

\* what the caller observes of a finished call
Outcome(fr) ==
    [status |-> fr.status, exc |-> fr.exc,
     value |-> IF fr.status = "returned" THEN <<fr.processed_df>> ELSE << >>]

(***************************************************************************)
(* Arguments of the calls: datasets and configurations                     *)
(***************************************************************************)
Saturday == Dt(5)
Tuesday == Dt(1)
LeapDay == Dt(59)

\* rows of the datasets: a float column x, a text column c, a timestamp
\* column d
RowPool ==
    << <<IntCell(1), Str("red"), Saturday>>,
       <<NA, Str("blue"), Tuesday>>,
       <<IntCell(4), NA, NA>>,
       <<IntCell(2), Str("Blue sky"), LeapDay>> >>

RECURSIVE SeqsUpTo(_, _)
\* the sequences over S of length at most n
SeqsUpTo(S, n) ==
    IF n = 0 THEN { << >> }
    ELSE LET shorter == SeqsUpTo(S, n - 1)
         IN  shorter \cup { Append(s, e) : s \in { t \in shorter : Len(t) = n - 1 }, e \in S }

\* the dataset of the given rows
Table(rows) ==
    DataFrame(<<"x", "c", "d">>, <<"float64", "object", "datetime64">>,
              [k \in 1..3 |-> [i \in 1..Len(rows) |-> rows[i][k]]],
              [i \in 1..Len(rows) |-> i - 1])

\* a dataset of one int64 column x with the given values
IntTable(values) ==
    DataFrame(<<"x">>, <<"int64">>, << [i \in 1..Len(values) |-> IntCell(values[i])] >>,
              [i \in 1..Len(values) |-> i - 1])

Example6 == IntTable(<<1, 2, 3, 4, 5, 100>>)

\* a dataset of one float64 column x with the given cells
FloatTable(values) ==
    DataFrame(<<"x">>, <<"float64">>, <<values>>, [i \in 1..Len(values) |-> i - 1])

\* a column whose outlier moves the third quartile
Skewed == FloatTable(<<IntCell(0), IntCell(0), IntCell(0), IntCell(9)>>)

Datasets ==
    { Table(rows) : rows \in SeqsUpTo(Range(RowPool), MaxRows) } \cup {Example6, Skewed}

NoScaling == [method |-> "", has_columns |-> FALSE, columns |-> << >>]
Scaling(method, columns) == [method |-> method, has_columns |-> TRUE, columns |-> columns]

NoFeatures ==
    [keys |-> {}, datetime_features |-> << >>,
     binning |-> [has_n_bins |-> FALSE, n_bins |-> 0],
     text_features |-> << >>, text_dash_features |-> << >>]
DatetimeOf(names) ==
    [NoFeatures EXCEPT !.keys = {"datetime_features"}, !.datetime_features = names]
BinningOf(n) ==
    [NoFeatures EXCEPT !.keys = {"binning"}, !.binning = [has_n_bins |-> TRUE, n_bins |-> n]]
TextOf(names) ==
    [NoFeatures EXCEPT !.keys = {"text_features"}, !.text_features = names]

\* the configuration without any key
EmptyConfig ==
    [order |-> << >>, convert_types |-> FALSE, handle_missing |-> << >>,
     handle_outliers |-> << >>, scaling |-> NoScaling,
     feature_engineering |-> << >>, encoding |-> << >>, drop_columns |-> << >>]

\* the values a configuration may hold under each key
Options(key) ==
    CASE key = "convert_types" -> { TRUE }
      [] key = "handle_missing" ->
           { << <<"x", "mean">> >>, << <<"x", "zero">> >>,
             << <<"x", "median">>, <<"c", "mode">> >>,
             << <<"c", "drop">>, <<"x", "forward">> >>,
             << <<"ghost", "mean">>, <<"x", "backward">> >>,
             << <<"d", "zero">>, <<"c", "mean">> >> }
      [] key = "handle_outliers" ->
           { << <<"x", "clip">> >>, << <<"x", "remove">> >>,
             << <<"ghost", "remove">>, <<"c", "clip">>, <<"x", "clip">> >> }
      [] key = "scaling" ->
           { Scaling("minmax", <<"x">>), Scaling("standard", <<"ghost", "x">>),
             Scaling("robust", <<"x", "c">>), Scaling("maxabs", <<"x">>),
             Scaling("maxabs", <<"ghost">>),
             [method |-> "minmax", has_columns |-> FALSE, columns |-> << >>] }
      [] key = "feature_engineering" ->
           { << <<"d", DatetimeOf(<<"weekday", "is_weekend">>)>> >>,
             << <<"x", BinningOf(2)>>, <<"ghost", BinningOf(2)>> >>,
             << <<"c", BinningOf(2)>>, <<"x", TextOf(<<"length">>)>>,
                <<"c", DatetimeOf(<<"year">>)>>, <<"d", DatetimeOf(<<"month", "quarter">>)>> >>,
             << <<"c", TextOf(<<"length", "word_count">>)>> >> }
      [] key = "encoding" ->
           { << <<"c", "onehot">> >>, << <<"ghost", "onehot">>, <<"x", "onehot">> >>,
             << <<"c", "label">> >> }
      [] key = "drop_columns" ->
           { <<"x">>, <<"ghost", "d">>, <<"c_red">> }

\* the configurations whose keys are, in this order, the elements of order
ConfigsOf(order) ==
    { c \in [order : {order},
             convert_types : IF "convert_types" \in Range(order)
                             THEN Options("convert_types") ELSE {FALSE},
             handle_missing : IF "handle_missing" \in Range(order)
                              THEN Options("handle_missing") ELSE {<< >>},
             handle_outliers : IF "handle_outliers" \in Range(order)
                               THEN Options("handle_outliers") ELSE {<< >>},
             scaling : IF "scaling" \in Range(order)
                       THEN Options("scaling") ELSE {NoScaling},
             feature_engineering : IF "feature_engineering" \in Range(order)
                                   THEN Options("feature_engineering") ELSE {<< >>},
             encoding : IF "encoding" \in Range(order)
                        THEN Options("encoding") ELSE {<< >>},
             drop_columns : IF "drop_columns" \in Range(order)
                            THEN Options("drop_columns") ELSE {<< >>}] : TRUE }

\* at most MaxKeys keys, inserted in the order of the stages or in the
\* opposite order
StageNo(key) == CHOOSE i \in 1..Len(Stages) : Stages[i] = key

KeyOrders ==
    { o \in SeqsUpTo(Range(Stages), MaxKeys) :
        \/ \A i \in 1..(Len(o) - 1) : StageNo(o[i]) < StageNo(o[i + 1])
        \/ \A i \in 1..(Len(o) - 1) : StageNo(o[i]) > StageNo(o[i + 1]) }

Configs == UNION { ConfigsOf(o) : o \in KeyOrders }

(***************************************************************************)
(* The program: calls of preprocess_data(df, config), statement by         *)
(* statement.  After the first call has finished the caller calls again    *)
(* with the same dataset object and configuration.                         *)
(***************************************************************************)
VARIABLES
    config,   \* the configuration argument
    df0,      \* the value of the caller's dataset when the call was made
    fr,       \* the activation: the caller's dataset object and the locals
    pc,       \* the stage block about to be executed
    call,     \* 1 during the first call, 2 during the second
    first,    \* the outcome of the first call, once it has finished
    session_state,  \* st.session_state of the application (app.py)
    last,     \* the last action of the user on the application
    steps     \* the number of actions of the user so far

session_vars == <<session_state, last, steps>>

vars == <<config, df0, fr, pc, call, first, session_vars>>

(***************************************************************************)
(* app.py, lines 31-38: the session state of the application.  None is the *)
(* empty sequence and a dataset df is <<df>>.  preprocessing_config is a   *)
(* dict: order holds its keys in the order of their insertion.             *)
(* analysis_results holds, under each kind of analysis, nothing or the     *)
(* result of the last analysis of that kind.                               *)
(***************************************************************************)
None == << >>

NoRecord ==
    [order |-> << >>, selected_columns |-> << >>, rename_columns |-> << >>,
     handle_missing |-> << >>, handle_outliers |-> << >>, scaling |-> NoScaling,
     feature_engineering |-> << >>]

NoResults == [time_series |-> << >>, cluster |-> << >>, distribution |-> << >>]

InitialSession ==
    [data |-> None, processed_data |-> None,
     preprocessing_config |-> NoRecord, analysis_results |-> NoResults]

\* what the last run of the script did: the button pressed, the exception
\* that ended the run (if any), and the keys of preprocessing_config before it
NoAction == [action |-> "", exc |-> "", record |-> << >>]

\* the application has not been started
NoSession ==
    /\ session_state = InitialSession
    /\ last = NoAction
    /\ steps = 0

NoDF == DataFrame(<< >>, << >>, << >>, << >>)
NoOutcome == [status |-> "running", exc |-> "", value |-> << >>]

InitWith(D, C) ==
    /\ config \in C
    /\ df0 \in D
    /\ fr = Frame(df0, NoDF, FALSE)
    /\ pc = "entry"
    /\ call = 1
    /\ first = NoOutcome
    /\ NoSession

Init == InitWith(Datasets, Configs)

\* where control goes after a stage block
After(f, next) == IF f.status = "running" THEN next ELSE "done"

Entry ==
    /\ pc = "entry"
    /\ fr' = [DataFrameCopy(fr.df) EXCEPT !.printed = fr.printed]
    /\ pc' = "convert_types"
    /\ UNCHANGED <<config, df0, call, first, session_vars>>

Step(stage, i, next) ==
    /\ pc = stage
    /\ fr' = RunStage(i, fr, config)
    /\ pc' = After(fr', next)
    /\ UNCHANGED <<config, df0, call, first, session_vars>>

ConvertTypes == Step("convert_types", 1, "handle_missing")
HandleMissing == Step("handle_missing", 2, "handle_outliers")
HandleOutliers == Step("handle_outliers", 3, "scaling")
ScalingStep == Step("scaling", 4, "feature_engineering")
FeatureEngineering == Step("feature_engineering", 5, "encoding")
Encoding == Step("encoding", 6, "drop_columns")
DropCols == Step("drop_columns", 7, "return")

ReturnStep ==
    /\ pc = "return"
    /\ fr' = Return(fr)
    /\ pc' = "done"
    /\ UNCHANGED <<config, df0, call, first, session_vars>>

\* the caller repeats the call with the same arguments
CallAgain ==
    /\ pc = "done"
    /\ call = 1
    /\ first' = Outcome(fr)
    /\ call' = 2
    /\ pc' = "entry"
    /\ fr' = [Frame(fr.df, NoDF, FALSE) EXCEPT !.printed = fr.printed]
    /\ UNCHANGED <<config, df0, session_vars>>

Next ==
    \/ Entry
    \/ ConvertTypes
    \/ HandleMissing
    \/ HandleOutliers
    \/ ScalingStep
    \/ FeatureEngineering
    \/ Encoding
    \/ DropCols
    \/ ReturnStep
    \/ CallAgain

Spec == Init /\ [][Next]_vars

TypeOK ==
    /\ pc \in {"entry", "return", "done"} \cup Range(Stages)
    /\ fr.status \in {"running", "returned", "raised"}
    /\ call \in {1, 2}

(***************************************************************************)
(* Calls on numeric columns with outliers: one float column x of up to     *)
(* MaxLen values, and the int column of the documented example             *)
(***************************************************************************)
OutlierDatasets ==
    { FloatTable(v) : v \in SeqsUpTo({IntCell(0), IntCell(1), IntCell(9), NA}, MaxLen) }
        \cup {Example6}

OutlierConfigs ==
    { c \in ConfigsOf(<<"handle_outliers">>) \cup
            ConfigsOf(<<"handle_missing", "handle_outliers">>) :
        /\ c.handle_outliers \in { << <<"x", "clip">> >>, << <<"x", "remove">> >> }
        /\ c.handle_missing \in { << >>, << <<"x", "mean">> >> } }

SpecOutliers == InitWith(OutlierDatasets, OutlierConfigs) /\ [][Next]_vars

(***************************************************************************)
(* Properties                                                              *)
(***************************************************************************)
Done == pc = "done"

\* the six stages of the pipeline, in their documented order
PipelineStages ==
    <<"handle_missing", "handle_outliers", "scaling",
      "feature_engineering", "encoding", "drop_columns">>

\* the stage has a non-empty value in the configuration
Present(stage) ==
    /\ HasKey(config, stage)
    /\ stage = "scaling" \/ config[stage] # << >>

\* the activation as it stands before stage block i of a call with the
\* dataset df0 and the configuration cfg
RECURSIVE Before(_, _)
Before(i, cfg) ==
    IF i = 1 THEN DataFrameCopy(df0) ELSE RunStage(i - 1, Before(i - 1, cfg), cfg)

Methods(items) == { items[i][2] : i \in 1..Len(items) }
Names(items) == { items[i][1] : i \in 1..Len(items) }

\* C1: at the end of every call the stage blocks that were entered are
\* exactly the stages present in the configuration, each once, in the order
\* missing values, outliers, scaling, feature engineering, encoding, column
\* dropping, whatever the order of the keys.
C1_StagesInFixedOrder ==
    Done => SelectSeq(fr.ran, LAMBDA st : st \in Range(PipelineStages))
              = SelectSeq(PipelineStages, Present)

\* C2: the dataset object of the caller holds, at every point of the call
\* and after it (returned or raised), the value it had when the call was
\* made.
C2_CallerDatasetUnchanged == fr.df = df0

C2_Witness ==
    /\ Done
    /\ fr.status = "returned"
    /\ "handle_missing" \in Range(fr.ran)
    /\ Column(fr.processed_df, "x") # Column(df0, "x")

\* the configuration removes no row: no drop-row, no remove-row
RowPreserving ==
    /\ "drop" \notin Methods(config.handle_missing)
    /\ "remove" \notin Methods(config.handle_outliers)

\* C3: a call whose configuration has no drop-row and no remove-row returns
\* a dataset with as many rows as its input.
C3_RowCountInvariant ==
    (Done /\ RowPreserving) =>
        /\ fr.status = "returned"
        /\ NRows(fr.processed_df) = NRows(df0)

\* C4: the second of two calls with the same dataset and configuration has
\* the same outcome as the first: the same returned dataset or the same
\* exception.
C4_Determinism == (Done /\ call = 2) => Outcome(fr) = first

C4_Witness ==
    /\ Done
    /\ call = 2
    /\ fr.status = "returned"
    /\ fr.processed_df # df0
    /\ fr.printed > 0

FillZeroOnly ==
    /\ config.order = <<"handle_missing">>
    /\ config.handle_missing = << <<"x", "zero">> >>
    /\ HasNA(Column(df0, "x"))

\* C5: fill-zero on a column with a missing value returns the dataset with
\* every missing entry of the column replaced by 0, and applying it to the
\* result returns the result.
C5_FillZeroIdempotent ==
    (Done /\ FillZeroOnly) =>
        /\ fr.status = "returned"
        /\ fr.processed_df =
             SetColumn(df0, "x", FillNA(Column(df0, "x"), IntCell(0)), "float64")
        /\ Outcome(preprocess_data(fr.processed_df, config)) = Outcome(fr)

\* C6: a call that reaches the scaling stage with a method other than
\* standard, minmax, robust ends by raising ConfigurationError.
C6_UnknownMethodRaises ==
    (/\ Done
     /\ "scaling" \in Range(fr.ran)
     /\ config.scaling.method \notin KnownMethods)
        => (fr.status = "raised" /\ fr.exc = "ConfigurationError")

\* the column is in the dataset neither before nor after stage block i
AbsentAt(i, col) ==
    /\ ~ColIn(Before(i, config).processed_df, col)
    /\ ~ColIn(Before(i + 1, config).processed_df, col)

\* the configuration without its entries for columns absent from the dataset
WithoutAbsent ==
    [config EXCEPT
        !.handle_missing = SelectSeq(@, LAMBDA e : ~AbsentAt(2, e[1])),
        !.handle_outliers = SelectSeq(@, LAMBDA e : ~AbsentAt(3, e[1])),
        !.scaling.columns = SelectSeq(@, LAMBDA col : ~AbsentAt(4, col)),
        !.feature_engineering = SelectSeq(@, LAMBDA e : ~AbsentAt(5, e[1])),
        !.encoding = SelectSeq(@, LAMBDA e : ~AbsentAt(6, e[1])),
        !.drop_columns = SelectSeq(@, LAMBDA col : ~AbsentAt(7, col))]

\* C7: the entries of any stage that name a column absent from the dataset
\* have no effect: the call ends as the call without these entries ends, with
\* the same returned dataset or the same exception.
C7_AbsentColumnSkipped ==
    Done => Outcome(fr) = Outcome(preprocess_data(df0, WithoutAbsent))

C7_Witness ==
    /\ Done
    /\ fr.status = "returned"
    /\ WithoutAbsent.handle_missing # config.handle_missing
    /\ WithoutAbsent.drop_columns # config.drop_columns
    /\ Column(fr.processed_df, "x") # Column(df0, "x")
    /\ fr.processed_df.columns # df0.columns

NumericDType(df, col) == ColIn(df, col) /\ DType(df, col) \in {"float64", "int64", "int32"}

\* the requested features of a column without those that cannot apply to it:
\* text features of a numeric column, datetime features of a column that is
\* not date-time, binning of a text column
Applicable(df, e) ==
    <<e[1],
      [e[2] EXCEPT !.keys = @ \ (
          (IF NumericDType(df, e[1]) THEN {"text_features"} ELSE {}) \cup
          (IF ColIn(df, e[1]) /\ DType(df, e[1]) # "datetime64"
           THEN {"datetime_features"} ELSE {}) \cup
          (IF ColIn(df, e[1]) /\ DType(df, e[1]) = "object"
           THEN {"binning"} ELSE {}))]>>

\* the configuration without its skippable mismatches: missing-value methods
\* of columns that have no missing value, and the features that cannot apply
WithoutMismatch ==
    [config EXCEPT
        !.handle_missing =
            SelectSeq(@, LAMBDA e :
                ~(/\ ColIn(Before(2, config).processed_df, e[1])
                  /\ ~HasNA(Column(Before(2, config).processed_df, e[1])))),
        !.feature_engineering =
            [i \in 1..Len(@) |-> Applicable(Before(5, config).processed_df, @[i])]]

\* C8: a missing-value method on a column without missing value, a text
\* feature on a numeric column, datetime features on a column that is not
\* date-time and binning on a text column have no effect: the call ends as the
\* call without them ends (so no exception comes from them, no <col>_bin is
\* appended for a text column, and the other entries take effect).
C8_MismatchSkipped ==
    Done =>
        /\ Outcome(fr) = Outcome(preprocess_data(df0, WithoutMismatch))
        /\ \A i \in 1..Len(config.feature_engineering) :
              LET e == config.feature_engineering[i] IN
              (/\ "binning" \in e[2].keys
               /\ ColIn(df0, e[1])
               /\ DType(df0, e[1]) = "object"
               /\ fr.status = "returned")
                  => ~ColIn(fr.processed_df, e[1] \o "_bin")

C8_Witness ==
    /\ Done
    /\ fr.status = "returned"
    /\ \E i \in 1..Len(config.feature_engineering) :
          /\ config.feature_engineering[i][1] = "c"
          /\ "binning" \in config.feature_engineering[i][2].keys
    /\ \E i \in 1..Len(config.feature_engineering) :
          /\ config.feature_engineering[i][1] = "x"
          /\ "text_features" \in config.feature_engineering[i][2].keys
    /\ \E i \in 1..Len(config.feature_engineering) :
          /\ config.feature_engineering[i][1] = "c"
          /\ "datetime_features" \in config.feature_engineering[i][2].keys
    /\ ColIn(fr.processed_df, "d_month")
    /\ config.handle_missing # << >>
    /\ WithoutMismatch.handle_missing # config.handle_missing
    /\ fr.processed_df.data # df0.data

\* the outlier stage is about to run with this single entry for column x
OutlierStage(method) ==
    /\ pc = "handle_outliers"
    /\ Present("handle_outliers")
    /\ config.handle_outliers = << <<"x", method>> >>

\* the position in the index of df of the row labelled l
RowOf(df, l) == CHOOSE i \in 1..NRows(df) : df.index[i] = l

\* C9: clip-to-bounds on a numeric column replaces every value below
\* lower = Q1 - 1.5 * IQR by lower and every value above
\* upper = Q3 + 1.5 * IQR by upper, the quartiles being those of the column at
\* that point, leaves the other values as they are and removes no row; for
\* [1, 2, 3, 4, 5, 100] the bounds are -1.5 and 8.5 and 100 becomes 8.5.
C9_ClipToBounds ==
    [][ OutlierStage("clip") =>
          LET old == Column(fr.processed_df, "x")
              new == Column(fr'.processed_df, "x")
              lower == RSub(Q1(old), RMul(Num(3, 2), RSub(Q3(old), Q1(old))))
              upper == RAdd(Q3(old), RMul(Num(3, 2), RSub(Q3(old), Q1(old))))
          IN  /\ fr'.status = "running"
              /\ fr'.processed_df.index = fr.processed_df.index
              /\ \A i \in 1..Len(old) :
                    IF IsNA(old[i]) THEN new[i] = old[i]
                    ELSE IF RLt(old[i], lower) THEN new[i] = lower
                    ELSE IF RLt(upper, old[i]) THEN new[i] = upper
                    ELSE new[i] = old[i]
              /\ fr.processed_df = Example6 =>
                    /\ Q1(old) = Num(9, 4) /\ Q3(old) = Num(19, 4)
                    /\ lower = Num(-3, 2) /\ upper = Num(17, 2)
                    /\ new = <<IntCell(1), IntCell(2), IntCell(3), IntCell(4),
                               IntCell(5), Num(17, 2)>> ]_vars

C9_Witness ==
    /\ pc = "scaling"
    /\ config.handle_outliers = << <<"x", "clip">> >>
    /\ df0 = Example6
    /\ Column(fr.processed_df, "x")[6] = Num(17, 2)

\* C10: remove-row on a numeric column deletes every row whose value is
\* below lower or above upper, keeps every row whose value lies in
\* [lower, upper] as it is, and keeps the order of the rows; for
\* [1, 2, 3, 4, 5, 100] exactly the row of 100 is deleted and 5 rows remain.
C10_RemoveRow ==
    [][ OutlierStage("remove") =>
          LET old == Column(fr.processed_df, "x")
              new == Column(fr'.processed_df, "x")
              kept == fr'.processed_df.index
              lower == RSub(Q1(old), RMul(Num(3, 2), RSub(Q3(old), Q1(old))))
              upper == RAdd(Q3(old), RMul(Num(3, 2), RSub(Q3(old), Q1(old))))
          IN  /\ fr'.status = "running"
              /\ \A i \in 1..Len(old) :
                    LET l == fr.processed_df.index[i] IN
                    IF IsNA(old[i]) THEN TRUE
                    ELSE IF RLt(old[i], lower) \/ RLt(upper, old[i])
                    THEN l \notin Range(kept)
                    ELSE l \in Range(kept) /\ new[RowOf(fr'.processed_df, l)] = old[i]
              /\ Range(kept) \subseteq Range(fr.processed_df.index)
              /\ \A i, j \in 1..Len(kept) : i < j => kept[i] < kept[j]
              /\ fr.processed_df = Example6 =>
                    /\ kept = <<0, 1, 2, 3, 4>>
                    /\ new = <<IntCell(1), IntCell(2), IntCell(3), IntCell(4), IntCell(5)>> ]_vars

C10_Witness ==
    /\ pc = "scaling"
    /\ config.handle_outliers = << <<"x", "remove">> >>
    /\ df0 = Example6
    /\ NRows(fr.processed_df) = 5

(***************************************************************************)
(* Calls that remove rows by the outliers of two numeric columns x and y   *)
(***************************************************************************)
\* a dataset of two float64 columns x and y with the given cells
TwoColumns(xs, ys) ==
    DataFrame(<<"x", "y">>, <<"float64", "float64">>, <<xs, ys>>,
              [i \in 1..Len(xs) |-> i - 1])

\* the outlier of x goes first, and without its row 5 is an outlier of y
OrderSensitive ==
    TwoColumns(<<IntCell(0), IntCell(0), IntCell(0), IntCell(0), IntCell(9)>>,
               <<IntCell(1), IntCell(1), IntCell(1), IntCell(5), IntCell(5)>>)

RemovalDatasets ==
    { TwoColumns(p[1], p[2]) :
        p \in { q \in SeqsUpTo({IntCell(0), IntCell(9)}, MaxLen) \X
                      SeqsUpTo({IntCell(1), IntCell(5)}, MaxLen) :
                  Len(q[1]) = Len(q[2]) } } \cup {OrderSensitive}

\* a configuration with only this handle_outliers mapping
OutliersOnly(items) ==
    [EmptyConfig EXCEPT !.order = <<"handle_outliers">>, !.handle_outliers = items]

RemovalConfigs ==
    { OutliersOnly(items) :
        items \in { << <<"x", "remove">>, <<"y", "remove">> >>,
                    << <<"y", "remove">>, <<"x", "remove">> >>,
                    << <<"x", "remove">> >>,
                    << <<"y", "clip">>, <<"x", "remove">> >> } }

SpecRemoval == InitWith(RemovalDatasets, RemovalConfigs) /\ [][Next]_vars

\* the value lies within [Q1 - 1.5 * IQR, Q3 + 1.5 * IQR] of the values
WithinFences(v, values) ==
    /\ ~IsNA(v)
    /\ NotNA(values) # << >>
    /\ RLe(RSub(Q1(values), RMul(Num(3, 2), RSub(Q3(values), Q1(values)))), v)
    /\ RLe(v, RAdd(Q3(values), RMul(Num(3, 2), RSub(Q3(values), Q1(values)))))

\* the rows of df at the positions of the set keep
RowsAt(df, keep) == SelectRows(df, [i \in 1..NRows(df) |-> i \in keep])

\* the rows of df that survive remove-row of column a and then of column b,
\* the bounds of b being those of its values in the survivors of a
SurvivorsOf(df, a, b) ==
    LET ofA == { i \in 1..NRows(df) : WithinFences(Column(df, a)[i], Column(df, a)) }
        left == Column(RowsAt(df, ofA), b)
    IN  { i \in ofA : WithinFences(Column(df, b)[i], left) }

\* C11: with remove-row configured for two columns, the call returns the rows
\* that survive the removal for the first column of the mapping and then the
\* removal for the second, whose bounds are the quartile bounds of the second
\* column over the survivors of the first only.
C11_SequentialRemoval ==
    (/\ Done
     /\ Len(config.handle_outliers) = 2
     /\ Methods(config.handle_outliers) = {"remove"})
        => /\ fr.status = "returned"
           /\ fr.processed_df =
                RowsAt(df0, SurvivorsOf(df0, config.handle_outliers[1][1],
                                             config.handle_outliers[2][1]))

\* the order of the columns in the mapping decides which rows survive
C11_Witness ==
    /\ Done
    /\ fr.status = "returned"
    /\ config.handle_outliers = << <<"x", "remove">>, <<"y", "remove">> >>
    /\ fr.processed_df.index = <<0, 1, 2>>
    /\ preprocess_data(df0, OutliersOnly(<< <<"y", "remove">>, <<"x", "remove">> >>))
           .processed_df.index = <<0, 1, 2, 3>>

(***************************************************************************)
(* Calls that scale one numeric column x of small integers                 *)
(***************************************************************************)
ScalingDatasets ==
    { FloatTable(v) : v \in SeqsUpTo({IntCell(1), IntCell(2), IntCell(6), NA}, MaxLen) }
        \cup {Example6}

\* a configuration with only this scaling entry
ScalingOnly(entry) == [EmptyConfig EXCEPT !.order = <<"scaling">>, !.scaling = entry]

ScalingConfigs ==
    { ScalingOnly(e) :
        e \in { Scaling("minmax", <<"x">>),
                [method |-> "minmax", has_columns |-> FALSE, columns |-> << >>],
                Scaling("standard", <<"x">>), Scaling("robust", <<"x">>) } }

SpecScaling == InitWith(ScalingDatasets, ScalingConfigs) /\ [][Next]_vars

\* column x of the input has no missing value and two different values
NonDegenerate ==
    /\ ~HasNA(Column(df0, "x"))
    /\ \E a, b \in Range(Column(df0, "x")) : a # b

\* C12: after min-max scaling of a numeric column without missing value whose
\* maximum differs from its minimum, every value of the column lies in [0, 1],
\* a row that held the minimum holds exactly 0 and a row that held the
\* maximum holds exactly 1.
C12_MinMaxBounds ==
    (Done /\ config.scaling.method = "minmax" /\ NonDegenerate) =>
        LET old == Column(df0, "x")
            new == Column(fr.processed_df, "x")
        IN  /\ fr.status = "returned"
            /\ \A i \in 1..Len(new) : RLe(IntCell(0), new[i]) /\ RLe(new[i], IntCell(1))
            /\ \E i \in 1..Len(new) : old[i] = Min(old) /\ new[i] = IntCell(0)
            /\ \E i \in 1..Len(new) : old[i] = Max(old) /\ new[i] = IntCell(1)

(***************************************************************************)
(* Calls that scale datasets of two numeric columns and a text column      *)
(***************************************************************************)
\* rows of a float column x, an int column y and a text column c
MixedRowPool ==
    << <<IntCell(1), IntCell(10), Str("red")>>,
       <<IntCell(4), IntCell(20), Str("blue")>>,
       <<NA, IntCell(30), NA>>,
       <<IntCell(2), IntCell(10), Str("blue")>> >>

MixedTable(rows) ==
    DataFrame(<<"x", "y", "c">>, <<"float64", "int64", "object">>,
              [k \in 1..3 |-> [i \in 1..Len(rows) |-> rows[i][k]]],
              [i \in 1..Len(rows) |-> i - 1])

MixedDatasets == { MixedTable(rows) : rows \in SeqsUpTo(Range(MixedRowPool), MaxRows) }

\* scaling alone, or after a drop-row that leaves gaps in the row labels
FrameConfigs ==
    { [EmptyConfig EXCEPT !.order = o, !.scaling = e,
                          !.handle_missing = IF Len(o) = 2 THEN << <<"x", "drop">> >> ELSE << >>] :
        o \in { <<"scaling">>, <<"handle_missing", "scaling">> },
        e \in { Scaling("minmax", <<"x">>), Scaling("standard", <<"y", "c">>),
                Scaling("robust", <<"ghost", "y", "x">>), Scaling("standard", <<"c">>),
                Scaling("maxabs", <<"x">>),
                [method |-> "robust", has_columns |-> FALSE, columns |-> << >>] } }

SpecFrame == InitWith(MixedDatasets, FrameConfigs) /\ [][Next]_vars

\* C13: the scaling stage leaves the names and order of the columns and the
\* labels and order of the rows as they are, and leaves the values of every
\* column that is not numeric or not among the configured columns as they are.
C13_ScalingFrame ==
    [][ pc = "scaling" =>
          LET old == fr.processed_df
              new == fr'.processed_df
          IN  /\ new.columns = old.columns
              /\ new.index = old.index
              /\ \A j \in 1..Len(old.columns) :
                    (\/ old.dtypes[j] \notin {"float64", "int64", "int32"}
                     \/ /\ config.scaling.has_columns
                        /\ old.columns[j] \notin Range(config.scaling.columns))
                       => /\ new.data[j] = old.data[j]
                          /\ new.dtypes[j] = old.dtypes[j] ]_vars

\* x has been rescaled, y and c have not
C13_Witness ==
    /\ pc = "feature_engineering"
    /\ config.scaling = Scaling("minmax", <<"x">>)
    /\ NRows(fr.processed_df) = 2
    /\ Column(fr.processed_df, "x") # Column(df0, "x")
    /\ Column(fr.processed_df, "y") = Column(df0, "y")
    /\ Column(fr.processed_df, "c") = Column(df0, "c")

(***************************************************************************)
(* Calls that encode columns                                               *)
(***************************************************************************)
\* a dataset of one text column
TextTable(name, values) ==
    DataFrame(<<name>>, <<"object">>, <<values>>, [i \in 1..Len(values) |-> i - 1])

Colors == TextTable("color", <<Str("red"), Str("red"), Str("blue")>>)
ColorsGap == TextTable("color", <<Str("red"), NA, Str("blue")>>)

EncodingDatasets ==
    { Table(rows) : rows \in SeqsUpTo(Range(RowPool), MaxRows) } \cup {Colors, ColorsGap}

\* a configuration with only this encoding mapping
EncodingOnly(items) == [EmptyConfig EXCEPT !.order = <<"encoding">>, !.encoding = items]

EncodingConfigs ==
    { EncodingOnly(items) :
        items \in { << <<"c", "onehot">> >>, << <<"color", "onehot">> >>,
                    << <<"x", "onehot">> >>, << <<"d", "onehot">> >>,
                    << <<"c", "label">> >>, << <<"color", "label">> >>,
                    << <<"x", "label">> >>, << <<"ghost", "label">> >> } }

SpecEncoding == InitWith(EncodingDatasets, EncodingConfigs) /\ [][Next]_vars

\* the call has ended, and its only entry was this method for a column of
\* the dataset
Encoded(method) ==
    /\ Done
    /\ Len(config.encoding) = 1
    /\ config.encoding[1][2] = method
    /\ ColIn(df0, config.encoding[1][1])

\* the name of the indicator column of a category of column col of df0
IndicatorName(col, cat) == col \o "_" \o CategoryName(cat, DType(df0, col))

\* the encoded column is gone, the other columns are as they were, and the
\* columns added are exactly one <col>_<category> per distinct category
OneHotColumns(col) ==
    LET new == fr.processed_df
        cats == Range(NotNA(Column(df0, col)))
        added == SubSeq(new.columns, Len(df0.columns), Len(new.columns))
    IN  /\ fr.status = "returned"
        /\ ~ColIn(new, col)
        /\ NRows(new) = NRows(df0)
        /\ \A c \in Range(df0.columns) \ {col} :
              ColIn(new, c) /\ Column(new, c) = Column(df0, c)
        /\ Len(new.columns) = Len(df0.columns) - 1 + Cardinality(cats)
        /\ Range(added) = { IndicatorName(col, cat) : cat \in cats }
        /\ \A c \in Range(added) : \A i \in 1..NRows(new) : Column(new, c)[i][2] \in {0, 1}

\* in row i the indicator columns of col sum to total, the 1 (if any) being
\* in the column of the category of the row
RowSum(col, i, total) ==
    LET new == fr.processed_df
        cats == Range(NotNA(Column(df0, col)))
        v == Column(df0, col)[i]
    IN  /\ Cardinality({ cat \in cats : Column(new, IndicatorName(col, cat))[i][2] = 1 }) = total
        /\ \A cat \in cats : Column(new, IndicatorName(col, cat))[i][2] = 1 => cat = v

Sunday == Dt(6)
NextMonday == Dt(7)

\* a dataset of a timestamp column d and a float column x
DateTable(days) ==
    DataFrame(<<"d", "x">>, <<"datetime64", "float64">>,
              <<days, [i \in 1..Len(days) |-> IntCell(i)]>>,
              [i \in 1..Len(days) |-> i - 1])

DateDatasets ==
    { DateTable(days) :
        days \in SeqsUpTo({Saturday, Sunday, Tuesday, NextMonday, LeapDay, NA}, MaxRows) }

\* a configuration with only this feature_engineering mapping
FeaturesOnly(items) ==
    [EmptyConfig EXCEPT !.order = <<"feature_engineering">>, !.feature_engineering = items]

DateConfigs ==
    { FeaturesOnly(<< <<col, DatetimeOf(wanted)>> >>) :
        col \in {"d", "x"},
        wanted \in { <<"weekday">>, <<"is_weekend">>, <<"is_weekend", "weekday">>,
                     <<"weekday", "year", "is_weekend">>, <<"month", "day", "quarter">> } }

SpecDatetime == InitWith(DateDatasets, DateConfigs) /\ [][Next]_vars

\* the days of the week of the calendar, Monday being 0: 2024-01-06 is a
\* Saturday, 2024-01-07 a Sunday, 2024-01-02 a Tuesday, 2024-01-08 a Monday
\* and 2024-02-29 a Thursday
DayOfWeek(c) ==
    CASE c = Saturday -> 5
      [] c = Sunday -> 6
      [] c = Tuesday -> 1
      [] c = NextMonday -> 0
      [] c = LeapDay -> 3

\* C15: datetime features of a date-time column d append one column
\* d_<component> per requested component and nothing else; d_weekday holds
\* the day of the week with Monday = 0 ... Sunday = 6, and d_is_weekend holds
\* 1 in the rows of a Saturday or a Sunday and 0 in every other row.
C15_WeekdayAndWeekend ==
    (Done /\ config.feature_engineering[1][1] = "d") =>
        LET wanted == Range(config.feature_engineering[1][2].datetime_features)
            old == Column(df0, "d")
            new == fr.processed_df
        IN  /\ fr.status = "returned"
            /\ SubSeq(new.columns, 1, 2) = df0.columns
            /\ SubSeq(new.data, 1, 2) = df0.data
            /\ Len(new.columns) = 2 + Cardinality(wanted)
            /\ Range(new.columns) = Range(df0.columns) \cup { "d_" \o w : w \in wanted }
            /\ "weekday" \in wanted =>
                  \A i \in 1..Len(old) :
                     ~IsNA(old[i]) => Column(new, "d_weekday")[i] = IntCell(DayOfWeek(old[i]))
            /\ "is_weekend" \in wanted =>
                  \A i \in 1..Len(old) :
                     Column(new, "d_is_weekend")[i] =
                        IntCell(IF old[i] \in {Saturday, Sunday} THEN 1 ELSE 0)

\* a Saturday gives 1 and a Tuesday gives 0
C15_Witness ==
    /\ Done
    /\ fr.status = "returned"
    /\ Column(df0, "d") = <<Saturday, Tuesday>>
    /\ fr.processed_df.columns = <<"d", "x", "d_weekday", "d_is_weekend">>
    /\ Column(fr.processed_df, "d_is_weekend") = <<IntCell(1), IntCell(0)>>
    /\ Column(fr.processed_df, "d_weekday") = <<IntCell(5), IntCell(1)>>

(***************************************************************************)
(* Calls that fill the missing values of one float column x                *)
(***************************************************************************)
\* a configuration with only this handle_missing mapping
MissingOnly(items) ==
    [EmptyConfig EXCEPT !.order = <<"handle_missing">>, !.handle_missing = items]

FillConfigs ==
    { MissingOnly(<< <<"x", method>> >>) : method \in {"mean", "median", "mode"} }

SpecFill == InitWith(OutlierDatasets, FillConfigs) /\ [][Next]_vars

\* v is the statistic of the non-missing values that the method names
IsStatistic(v, method, values) ==
    LET n == Len(values)
        sorted == Sorted(values)
    IN  CASE method = "mean" -> v = RDiv(SumSeq(values), IntCell(n))
          [] method = "median" ->
               v = IF n % 2 = 1 THEN sorted[(n + 1) \div 2]
                   ELSE RDiv(RAdd(sorted[n \div 2], sorted[n \div 2 + 1]), IntCell(2))
          [] method = "mode" ->
               /\ v \in Range(values)
               /\ \A o \in Range(values) : Count(values, o) <= Count(values, v)

\* C16: fill-mean, fill-median and fill-mode on a column with a missing and a
\* non-missing value put the mean, the median, respectively a most frequent
\* value of the non-missing values in every missing entry, and leave every
\* other entry as it was.
C16_FillStatistic ==
    (Done /\ HasNA(Column(df0, "x")) /\ NotNA(Column(df0, "x")) # << >>) =>
        LET old == Column(df0, "x")
            new == Column(fr.processed_df, "x")
        IN  /\ fr.status = "returned"
            /\ Len(new) = Len(old)
            /\ \A i \in 1..Len(old) :
                  IF IsNA(old[i])
                  THEN IsStatistic(new[i], config.handle_missing[1][2], NotNA(old))
                  ELSE new[i] = old[i]

(***************************************************************************)
(* Calls that drop the rows with missing values of two float columns       *)
(***************************************************************************)
\* rows of the columns x and y
GapRowPool ==
    { <<IntCell(1), IntCell(0)>>, <<NA, IntCell(9)>>, <<IntCell(4), NA>>, <<NA, NA>> }

DropDatasets ==
    { TwoColumns([i \in 1..Len(rows) |-> rows[i][1]], [i \in 1..Len(rows) |-> rows[i][2]]) :
        rows \in SeqsUpTo(GapRowPool, MaxLen) }

DropConfigs ==
    { MissingOnly(items) :
        items \in { << <<"x", "drop">> >>,
                    << <<"x", "drop">>, <<"y", "mean">> >>,
                    << <<"y", "mean">>, <<"x", "drop">> >>,
                    << <<"x", "drop">>, <<"y", "drop">> >> } }

SpecDrop == InitWith(DropDatasets, DropConfigs) /\ [][Next]_vars

\* the positions of the rows of df whose value of col is not missing
Filled(df, col) == { i \in 1..NRows(df) : ~IsNA(Column(df, col)[i]) }

\* C17: drop-row on x removes the rows in which x is missing and keeps the
\* other rows as they are, in their order; a drop-row on y after it removes
\* the rows in which y is missing as well; a fill-mean on y after it fills y
\* with the mean of y over the rows that are left.
C17_DropRow ==
    (Done /\ config.handle_missing[1] = <<"x", "drop">>) =>
        LET left == RowsAt(df0, Filled(df0, "x"))
            y == Column(left, "y")
            mean == RDiv(SumSeq(NotNA(y)), IntCell(Len(NotNA(y))))
            next == IF Len(config.handle_missing) = 2
                    THEN config.handle_missing[2][2] ELSE ""
        IN  /\ fr.status = "returned"
            /\ next = "" => fr.processed_df = left
            /\ next = "drop" =>
                  fr.processed_df = RowsAt(df0, Filled(df0, "x") \cap Filled(df0, "y"))
            /\ next = "mean" =>
                  /\ fr.processed_df.index = left.index
                  /\ Column(fr.processed_df, "x") = Column(left, "x")
                  /\ \A i \in 1..Len(y) :
                        Column(fr.processed_df, "y")[i] =
                           IF ~IsNA(y[i]) THEN y[i]
                           ELSE IF NotNA(y) = << >> THEN NA
                           ELSE mean

\* the mean of y over the rows left is 0; over all the rows it is 4.5
C17_Witness ==
    /\ Done
    /\ fr.status = "returned"
    /\ config.handle_missing = << <<"x", "drop">>, <<"y", "mean">> >>
    /\ df0.data = << <<IntCell(1), NA, IntCell(4)>>, <<IntCell(0), IntCell(9), NA>> >>
    /\ fr.processed_df.index = <<0, 2>>
    /\ Column(fr.processed_df, "y") = <<IntCell(0), IntCell(0)>>

(***************************************************************************)
(* Calls that extract text features of a text column c                     *)
(***************************************************************************)
TextDatasets ==
    { TextTable("c", v) :
        v \in SeqsUpTo({Str("red"), Str("blue"), Str("Blue sky"), NA}, MaxRows) }

TextConfigs ==
    { FeaturesOnly(<< <<"c", TextOf(wanted)>> >>) :
        wanted \in { <<"length">>, <<"word_count">>, <<"length", "word_count">>,
                     <<"contains">> } }

SpecText == InitWith(TextDatasets, TextConfigs) /\ [][Next]_vars

\* C18: text features of a text column are applied without error: length
\* appends c_length with the number of characters of each value and
\* word_count appends c_word_count with its number of whitespace-separated
\* tokens (and substring-presence ends without error as well).
C18_TextFeatures ==
    (Done /\ IsStringDType(df0, "c")) =>
        LET wanted == Range(config.feature_engineering[1][2].text_features)
            old == Column(df0, "c")
            new == fr.processed_df
        IN  /\ fr.status = "returned"
            /\ "length" \in wanted =>
                  /\ ColIn(new, "c_length")
                  /\ \A i \in 1..Len(old) :
                        Column(new, "c_length")[i] = IntCell(StrLen(old[i][4]))
            /\ "word_count" \in wanted =>
                  /\ ColIn(new, "c_word_count")
                  /\ \A i \in 1..Len(old) :
                        Column(new, "c_word_count")[i] = IntCell(WordCount(old[i][4]))

\* C19: label encoding of a column of the dataset returns the dataset with
\* the values of that column replaced by integers, two rows holding the same
\* integer exactly when they held the same category; the names of the columns
\* and the number of rows are unchanged.
C19_LabelEncoding ==
    Encoded("label") =>
        LET col == config.encoding[1][1]
            old == Column(df0, col)
            new == Column(fr.processed_df, col)
        IN  /\ fr.status = "returned"
            /\ fr.processed_df.columns = df0.columns
            /\ NRows(fr.processed_df) = NRows(df0)
            /\ \A i \in 1..Len(old) : new[i][1] = "num" /\ new[i][3] = 1
            /\ \A i, j \in 1..Len(old) :
                  (~IsNA(old[i]) /\ ~IsNA(old[j])) => ((new[i] = new[j]) <=> (old[i] = old[j]))

(***************************************************************************)
(* Calls that drop columns, alone or after an encoding                     *)
(***************************************************************************)
PruneConfigs ==
    { [EmptyConfig EXCEPT !.order = o, !.drop_columns = names,
                          !.encoding = IF "encoding" \in Range(o)
                                       THEN << <<"c", "onehot">> >> ELSE << >>] :
        o \in { <<"drop_columns">>, <<"encoding", "drop_columns">>,
                <<"drop_columns", "encoding">> },
        names \in { <<"x">>, <<"ghost", "d">>, <<"c_red", "c">>, <<"ghost">>,
                    <<"d", "c", "x">> } }

SpecPrune == InitWith(EncodingDatasets, PruneConfigs) /\ [][Next]_vars

\* C20: the column dropping stage removes the columns that are named in
\* drop_columns and are in the dataset at that point, keeps every other column
\* with its values at its place among the others, removes no row, and ends
\* without error also when a name is not a column of the dataset.
C20_ColumnDropping ==
    [][ (pc = "drop_columns" /\ Present("drop_columns")) =>
          LET old == fr.processed_df
              new == fr'.processed_df
              gone == { c \in Range(config.drop_columns) : c \in Range(old.columns) }
              keep == { j \in 1..Len(old.columns) : old.columns[j] \notin gone }
          IN  /\ fr'.status = "running"
              /\ new.index = old.index
              /\ \A c \in gone : ~ColIn(new, c)
              /\ new.columns = SelectSeq(old.columns, LAMBDA c : c \notin gone)
              /\ Len(new.data) = Cardinality(keep)
              /\ \A j \in keep :
                    LET k == Cardinality({ i \in keep : i <= j })
                    IN  /\ new.columns[k] = old.columns[j]
                        /\ new.data[k] = old.data[j]
                        /\ new.dtypes[k] = old.dtypes[j] ]_vars

\* c_red, made by the encoding, is dropped; c, removed by the encoding, is
\* ignored
C20_Witness ==
    /\ pc = "return"
    /\ fr.ran = <<"encoding", "drop_columns">>
    /\ config.drop_columns = <<"c_red", "c">>
    /\ df0.columns = <<"x", "c", "d">>
    /\ Column(df0, "c") = <<Str("red"), Str("blue")>>
    /\ fr.processed_df.columns = <<"x", "d", "c_blue">>
    /\ NRows(fr.processed_df) = 2

(***************************************************************************)
(* Calls whose handle_missing mapping asks for a statistic of the text     *)
(* column c, alone or before the other stages                              *)
(***************************************************************************)
FailureConfigs ==
    { [EmptyConfig EXCEPT !.order = o, !.handle_missing = items,
                          !.convert_types = "convert_types" \in Range(o),
                          !.drop_columns = IF "drop_columns" \in Range(o)
                                           THEN <<"y">> ELSE << >>] :
        o \in { <<"handle_missing">>, <<"handle_missing", "drop_columns">>,
                <<"convert_types", "handle_missing", "drop_columns">> },
        items \in { << <<"c", "mean">>, <<"x", "mean">> >>,
                    << <<"c", "median">> >>,
                    << <<"x", "mean">>, <<"c", "mode">> >> } }

SpecFailure == InitWith(MixedDatasets, FailureConfigs) /\ [][Next]_vars

\* the entry asks for the mean or the median of a text column with a missing
\* value, which pandas cannot compute
FailingEntry(e) ==
    /\ e[2] \in {"mean", "median"}
    /\ MissingGuard(df0, e[1])
    /\ ~Reducible(Column(df0, e[1]))

\* the configuration without the entries that fail
WithoutFailing ==
    [config EXCEPT !.handle_missing = SelectSeq(@, LAMBDA e : ~FailingEntry(e))]

\* C21: a call whose handle_missing mapping has an entry that fails on its
\* column does not raise: it writes a warning and returns what the call
\* without the failing entries returns, so the other columns of the stage and
\* the later stages are applied.
C21_ColumnFailureCaught ==
    (Done /\ \E i \in 1..Len(config.handle_missing) : FailingEntry(config.handle_missing[i]))
        => /\ fr.status = "returned"
           /\ fr.printed > 0
           /\ Outcome(fr).value = Outcome(preprocess_data(df0, WithoutFailing)).value

(***************************************************************************)
(* Calls with a scaling method that is not recognized, alone or with the   *)
(* stages before and after it                                              *)
(***************************************************************************)
UnknownConfigs ==
    { [EmptyConfig EXCEPT !.order = o, !.scaling = e,
                          !.handle_outliers = IF "handle_outliers" \in Range(o)
                                              THEN << <<"x", "remove">> >> ELSE << >>,
                          !.feature_engineering = IF "feature_engineering" \in Range(o)
                                                  THEN << <<"y", BinningOf(2)>> >> ELSE << >>,
                          !.encoding = IF "encoding" \in Range(o)
                                       THEN << <<"c", "onehot">> >> ELSE << >>,
                          !.drop_columns = IF "drop_columns" \in Range(o)
                                           THEN <<"y">> ELSE << >>] :
        o \in { <<"scaling">>, <<"scaling", "drop_columns">>,
                <<"handle_outliers", "scaling", "encoding">>,
                <<"drop_columns", "feature_engineering", "scaling">> },
        e \in { Scaling("maxabs", <<"x">>), Scaling("maxabs", <<"ghost", "y">>),
                Scaling("maxabs", <<"c", "ghost">>), Scaling("maxabs", << >>),
                [method |-> "maxabs", has_columns |-> FALSE, columns |-> << >>] } }

SpecUnknown == InitWith(MixedDatasets, UnknownConfigs) /\ [][Next]_vars

\* the configuration without its scaling key
WithoutScaling ==
    [config EXCEPT !.order = SelectSeq(@, LAMBDA k : k # "scaling"),
                   !.scaling = NoScaling]

\* the stages after scaling
LaterStages == {"feature_engineering", "encoding", "drop_columns"}

\* C28: a call that reaches the scaling stage with an unrecognized method
\* does not raise there.  With a configured column that is numeric and
\* present it returns the dataset as it stood before the scaling stage, and
\* no later stage is entered; with no such column it ends as the call
\* without the scaling key ends.
C28_UnknownMethodReturns ==
    (/\ Done
     /\ "scaling" \in Range(fr.ran)
     /\ config.scaling.method \notin KnownMethods)
        => LET before == Before(4, config).processed_df IN
           IF ValidCols(before, config.scaling) # << >>
           THEN /\ fr.status = "returned"
                /\ fr.processed_df = before
                /\ Range(fr.ran) \cap LaterStages = {}
           ELSE Outcome(fr) = Outcome(preprocess_data(df0, WithoutScaling))

\* the early return has kept the column y that drop_columns names
C28_Witness ==
    /\ Done
    /\ config.order = <<"scaling", "drop_columns">>
    /\ config.scaling = Scaling("maxabs", <<"ghost", "y">>)
    /\ fr.status = "returned"
    /\ NRows(df0) = 2
    /\ fr.processed_df = df0
    /\ ColIn(fr.processed_df, "y")

\* C29: remove-row on a numeric column deletes every row whose value in the
\* column is missing; clip-to-bounds keeps every row, and a missing value
\* stays missing.
C29_MissingValueRows ==
    [][ /\ OutlierStage("remove") =>
            \A i \in 1..NRows(fr.processed_df) :
                IsNA(Column(fr.processed_df, "x")[i])
                    => fr.processed_df.index[i] \notin Range(fr'.processed_df.index)
        /\ OutlierStage("clip") =>
            /\ fr'.processed_df.index = fr.processed_df.index
            /\ \A i \in 1..NRows(fr.processed_df) :
                  IsNA(Column(fr.processed_df, "x")[i])
                      => IsNA(Column(fr'.processed_df, "x")[i]) ]_vars

\* of the rows 0, 1, 2 the row 1, whose value is missing, has been removed
C29_Witness ==
    /\ pc = "scaling"
    /\ config.handle_outliers = << <<"x", "remove">> >>
    /\ config.handle_missing = << >>
    /\ Column(df0, "x") = <<IntCell(1), NA, IntCell(1)>>
    /\ fr.processed_df.index = <<0, 2>>

(***************************************************************************)
(* app.py: the session of one user.  Every run of the script is one        *)
(* action: the button that the user pressed, with the values of the        *)
(* widgets of that run.  A run that an exception ends keeps the            *)
(* assignments to the session state made before the exception.             *)
(***************************************************************************)
MaxSteps == 4

\* the datasets that the user loads: a float column x with a missing value
\* and a timestamp column d; two float columns x and y
DatedTable ==
    DataFrame(<<"x", "d">>, <<"float64", "datetime64">>,
              << <<IntCell(1), NA>>, <<Saturday, Tuesday>> >>, <<0, 1>>)

PairTable == TwoColumns(<<IntCell(4), IntCell(2)>>, <<NA, IntCell(9)>>)

SessionDatasets == {DatedTable, PairTable}

RECURSIVE SubSeqs(_)
\* the subsequences of s, which keep the order of s
SubSeqs(s) ==
    IF s = << >> THEN { << >> }
    ELSE LET rest == SubSeqs(Tail(s))
         IN  rest \cup { <<Head(s)>> \o t : t \in rest }

\* d[key] = value on a dict
SetItem(d, key, value) ==
    [d EXCEPT ![key] = value,
              !.order = IF key \in Range(@) THEN @ ELSE Append(@, key)]

\* items[key] = value on a dict held as the sequence of its items
PutItem(items, key, value) ==
    IF \E i \in 1..Len(items) : items[i][1] = key
    THEN [i \in 1..Len(items) |-> IF items[i][1] = key THEN <<key, value>> ELSE items[i]]
    ELSE Append(items, <<key, value>>)

\* df[cols], for columns of df
SelectColumns(df, cols) ==
    [df EXCEPT !.columns = cols,
               !.dtypes = [i \in 1..Len(cols) |-> DType(df, cols[i])],
               !.data = [i \in 1..Len(cols) |-> Column(df, cols[i])]]

\* df.rename(columns=mapping), the mapping held as the sequence of its items
Rename(df, mapping) ==
    [df EXCEPT !.columns =
        [i \in 1..Len(df.columns) |->
            IF \E k \in 1..Len(mapping) : mapping[k][1] = df.columns[i]
            THEN mapping[CHOOSE k \in 1..Len(mapping) : mapping[k][1] = df.columns[i]][2]
            ELSE df.columns[i]]]

\* app.py, lines 671-689: the values of the widgets of the column tab, a
\* selection of columns of the original dataset (here: all of them, which is
\* the default, the first alone, or none) and new names for some of them
\* (here: none, or z for x)
Selections(s) ==
    LET all_columns == s.data[1].columns
    IN  { all_columns, <<Head(all_columns)>>, << >> }

Renamings(selected_columns) ==
    { << >> } \cup { << <<"x", "z">> >> : c \in { k \in Range(selected_columns) : k = "x" } }

\* line 680 raises KeyError when a selected column is not in processed_data
SelectionFails(s, selected_columns) ==
    \E c \in Range(selected_columns) : ~ColIn(s.processed_data[1], c)

\* lines 661-692: processed_df as the tabs after the column tab see it
ColumnTab(s, selected_columns, rename_columns) ==
    IF selected_columns = << >> THEN s.processed_data[1]
    ELSE Rename(SelectColumns(s.processed_data[1], selected_columns), rename_columns)

\* line 801 divides by len(processed_df) when there is a numeric column
OutlierTabFails(processed_df) ==
    NumericCols(processed_df) # << >> /\ NRows(processed_df) = 0

\* the script reaches the handlers of the column tab and of the missing
\* value tab; it reaches the handlers of the later tabs
ReachesTabs(s, selected_columns) ==
    s.data # None /\ ~SelectionFails(s, selected_columns)

ReachesLaterTabs(s, selected_columns, rename_columns) ==
    /\ ReachesTabs(s, selected_columns)
    /\ ~OutlierTabFails(ColumnTab(s, selected_columns, rename_columns))

\* the session state and the exception (if any) at the end of a run
Ran(s, exc) == [state |-> s, exc |-> exc]

\* lines 752-758 and their likes: the fragment is stored under the key, then
\* preprocess_data is called, then its result is stored
Apply(s, recorded, processed_df, cfg) ==
    LET t == [s EXCEPT !.preprocessing_config = recorded]
    IN  TheOne({ IF out.status = "returned"
                 THEN Ran([t EXCEPT !.processed_data = <<out.processed_df>>], "")
                 ELSE Ran(t, out.exc) : out \in { preprocess_data(processed_df, cfg) } })

\* the load, were it to start the session afresh
LoadAfresh(s, df) == Ran([InitialSession EXCEPT !.data = <<df>>, !.processed_data = <<df>>], "")

\* lines 218-220, 263-265, 303-305
LoadDataset(s, df) == Ran([s EXCEPT !.data = <<df>>, !.processed_data = <<df>>], "")

\* the column button, were it to store the table as the original dataset too
ApplyColumnsToData(s, selected_columns, rename_columns) ==
    Ran([s EXCEPT !.data = <<ColumnTab(s, selected_columns, rename_columns)>>,
                  !.processed_data = <<ColumnTab(s, selected_columns, rename_columns)>>,
                  !.preprocessing_config =
                      SetItem(SetItem(@, "selected_columns", selected_columns),
                              "rename_columns", rename_columns)], "")

\* lines 695-698
ApplyColumns(s, selected_columns, rename_columns) ==
    Ran([s EXCEPT !.processed_data = <<ColumnTab(s, selected_columns, rename_columns)>>,
                  !.preprocessing_config =
                      SetItem(SetItem(@, "selected_columns", selected_columns),
                              "rename_columns", rename_columns)], "")

\* the tabs whose button calls preprocess_data
ApplyTabs == {"handle_missing", "handle_outliers", "scaling", "datetime_features", "binning"}

\* the record after the assignment that comes before the call: lines 752, 824,
\* 880, 946 and 977-989 (the fragment of the binning tab is one item,
\* <<binning_column, the binning of n_bins>>)
RecordOf(s, tab, fragment) ==
    CASE tab = "handle_missing" -> SetItem(s.preprocessing_config, "handle_missing", fragment)
      [] tab = "handle_outliers" -> SetItem(s.preprocessing_config, "handle_outliers", fragment)
      [] tab = "scaling" -> SetItem(s.preprocessing_config, "scaling", fragment)
      [] tab = "datetime_features" ->
            SetItem(s.preprocessing_config, "feature_engineering", fragment)
      [] tab = "binning" ->
            LET started == IF "feature_engineering" \in Range(s.preprocessing_config.order)
                           THEN s.preprocessing_config
                           ELSE SetItem(s.preprocessing_config, "feature_engineering", << >>)
            IN  [started EXCEPT !.feature_engineering = PutItem(@, fragment[1], fragment[2])]

\* the configuration passed to preprocess_data: lines 755, 827, 883, 949, 992-998
ConfigOf(tab, fragment) ==
    CASE tab = "handle_missing" -> MissingOnly(fragment)
      [] tab = "handle_outliers" -> OutliersOnly(fragment)
      [] tab = "scaling" -> ScalingOnly(fragment)
      [] tab = "datetime_features" -> FeaturesOnly(fragment)
      [] tab = "binning" -> FeaturesOnly(<<fragment>>)

\* lines 750-758, 822-830, 878-886, 944-952, 975-1001
ApplyTab(s, tab, processed_df, fragment) ==
    Apply(s, RecordOf(s, tab, fragment), processed_df, ConfigOf(tab, fragment))

\* the reset, were it to keep the record
ResetTable(s) == Ran([s EXCEPT !.processed_data = s.data], "")

\* lines 1035-1037
Reset(s) ==
    Ran([s EXCEPT !.processed_data = s.data, !.preprocessing_config = NoRecord], "")

\* lines 1103, 1164, 1225: the result of an analysis, of which the model
\* keeps the table analysed and the columns chosen
Analyse(s, kind, columns) ==
    Ran([s EXCEPT !.analysis_results[kind] =
                      << [table |-> s.processed_data[1], columns |-> columns] >>], "")

\* the columns of timestamps
DatetimeCols(df) ==
    SelectIdx(df.columns, [i \in 1..Len(df.columns) |-> df.dtypes[i] = "datetime64"], 1)

\* the columns with a missing value (line 716)
MissingColumns(df) ==
    SelectIdx(df.columns, [i \in 1..Len(df.columns) |-> HasNA(df.data[i])], 1)

\* methods of the selectbox of lines 739-747
MissingMethods == {"drop", "mean", "zero"}

\* the method of the selectbox of lines 812-820
OutlierMethods == {"clip"}

\* lines 843-862: the method chosen and the columns, all the numeric ones
ScalingChoices(processed_df) ==
    { Scaling("minmax", NumericCols(processed_df)) : c \in Range(NumericCols(processed_df)) }

\* the boxes ticked at lines 916-923: the year alone
FeatureChoices == { <<"year">> }

\* the number of bins of line 973
BinChoices == {2}

SessionInit ==
    /\ config = EmptyConfig
    /\ df0 = NoDF
    /\ fr = Frame(NoDF, NoDF, FALSE)
    /\ pc = "idle"
    /\ call = 0
    /\ first = NoOutcome
    /\ NoSession

\* one run of the script
Run(action, ran) ==
    /\ steps < MaxSteps
    /\ \E end \in {ran} :
          /\ session_state' = end.state
          /\ last' = [action |-> action, exc |-> end.exc,
                      record |-> session_state.preprocessing_config.order]
    /\ steps' = steps + 1
    /\ UNCHANGED <<config, df0, fr, pc, call, first>>

Load == \E df \in SessionDatasets : Run("load", LoadDataset(session_state, df))

\* the preprocessing page is drawn without any button pressed
Render ==
    /\ session_state.data # None
    /\ \E selected_columns \in Selections(session_state) :
          Run("render", Ran(session_state,
                            IF SelectionFails(session_state, selected_columns)
                            THEN "KeyError" ELSE ""))

ColumnsButton ==
    /\ session_state.data # None
    /\ \E selected_columns \in Selections(session_state) \ { << >> } :
       \E rename_columns \in Renamings(selected_columns) :
          /\ ReachesTabs(session_state, selected_columns)
          /\ Run("columns", ApplyColumns(session_state, selected_columns, rename_columns))

\* the values of the widgets of a tab: lines 716-747, 787-820, 843-876,
\* 905-942, 960-973
Fragments(tab, processed_df) ==
    CASE tab = "handle_missing" ->
            { << <<col, method>> >> :
                col \in Range(MissingColumns(processed_df)), method \in MissingMethods }
      [] tab = "handle_outliers" ->
            { << <<col, method>> >> :
                col \in Range(NumericCols(processed_df)), method \in OutlierMethods }
      [] tab = "scaling" -> ScalingChoices(processed_df)
      [] tab = "datetime_features" ->
            { [i \in 1..Len(columns) |-> <<columns[i], DatetimeOf(wanted)>>] :
                columns \in SubSeqs(DatetimeCols(processed_df)) \ { << >> },
                wanted \in FeatureChoices }
      [] tab = "binning" ->
            { <<binning_column, BinningOf(n_bins)>> :
                binning_column \in Range(NumericCols(processed_df)), n_bins \in BinChoices }

\* the button of a tab that calls preprocess_data (the names of the columns
\* are left as they are)
ApplyButton(tab) ==
    /\ session_state.data # None
    /\ \E selected_columns \in Selections(session_state) :
          /\ IF tab = "handle_missing"
             THEN ReachesTabs(session_state, selected_columns)
             ELSE ReachesLaterTabs(session_state, selected_columns, << >>)
          /\ \E processed_df \in { ColumnTab(session_state, selected_columns, << >>) } :
                 \E fragment \in Fragments(tab, processed_df) :
                    Run(tab, ApplyTab(session_state, tab, processed_df, fragment))

MissingButton == ApplyButton("handle_missing")
OutliersButton == ApplyButton("handle_outliers")
ScalingButton == ApplyButton("scaling")
DatetimeButton == ApplyButton("datetime_features")
BinningButton == ApplyButton("binning")

ResetButton ==
    /\ session_state.data # None
    /\ \E selected_columns \in Selections(session_state) :
          /\ ReachesLaterTabs(session_state, selected_columns, << >>)
          /\ Run("reset", Reset(session_state))

\* lines 1046-1225: an analysis that has come to its end (one that raises
\* stores nothing), with the first choice of every selectbox: the first
\* column of timestamps and the first numeric column, all the numeric columns
\* and two clusters, the first column
TimeSeriesButton ==
    /\ session_state.data # None
    /\ LET df == session_state.processed_data[1]
       IN  /\ DatetimeCols(df) # << >>
           /\ NumericCols(df) # << >>
           /\ Run("time_series",
                  Analyse(session_state, "time_series",
                          <<Head(DatetimeCols(df)), Head(NumericCols(df))>>))

ClusterButton ==
    /\ session_state.data # None
    /\ LET df == session_state.processed_data[1]
       IN  /\ NRows(df) >= 2
           /\ Len(NumericCols(df)) >= 2
           /\ \A c \in Range(NumericCols(df)) : NotNA(Column(df, c)) # << >>
           /\ Run("cluster", Analyse(session_state, "cluster", NumericCols(df)))

DistributionButton ==
    /\ session_state.data # None
    /\ LET df == session_state.processed_data[1]
       IN  /\ df.columns # << >>
           /\ Run("distribution", Analyse(session_state, "distribution", <<Head(df.columns)>>))

SessionNext ==
    \/ Load
    \/ Render
    \/ ColumnsButton
    \/ MissingButton
    \/ OutliersButton
    \/ ScalingButton
    \/ DatetimeButton
    \/ BinningButton
    \/ ResetButton
    \/ TimeSeriesButton
    \/ ClusterButton
    \/ DistributionButton

SpecSession == SessionInit /\ [][SessionNext]_vars

(***************************************************************************)
(* Claims about the session                                                *)
(***************************************************************************)
\* the run that has just ended pressed the button of a tab that calls
\* preprocess_data
Applied(l) == l.action \in ApplyTabs

\* C22: whenever the call of preprocess_data made by an apply action fails,
\* the applied-configuration record is the same as before the action
C22_RecordOnlyApplied ==
    [][ (Applied(last') /\ last'.exc # "")
            => session_state'.preprocessing_config = session_state.preprocessing_config ]_vars

\* the fragment recorded under a key is still in the record: the items of
\* feature_engineering one by one, the fragment of another key as a whole
Kept(old, new, key) ==
    /\ key \in Range(new.order)
    /\ IF key = "feature_engineering"
       THEN Range(old.feature_engineering) \subseteq Range(new.feature_engineering)
       ELSE new[key] = old[key]

\* C23: the applied-configuration record is append-only: no action removes or
\* overwrites a fragment that the record holds
C23_RecordAppendOnly ==
    [][ \A key \in Range(session_state.preprocessing_config.order) :
            Kept(session_state.preprocessing_config, session_state'.preprocessing_config, key)
      ]_vars

\* the columns of the processed table that the original dataset does not have
Derived(s) ==
    { c \in Range(s.processed_data[1].columns) : ~ColIn(s.data[1], c) }

\* C24: the columns that an applied step has produced are still in the
\* processed table after a later preprocessing step has been applied
C24_TableKept ==
    [][ (Applied(last') /\ last'.exc = "" /\ session_state.data # None)
            => \A c \in Derived(session_state) :
                  ColIn(session_state'.processed_data[1], c) ]_vars

\* C25: the original dataset of the session is assigned by the load action
\* alone, and it is None exactly when the processed table is None
C25_DataOnlyLoaded ==
    /\ [](session_state.data = None <=> session_state.processed_data = None)
    /\ [][ session_state'.data # session_state.data => last'.action = "load" ]_vars

\* a preprocessing step has changed the processed table and the original
\* dataset is as it was loaded
C25_Witness ==
    /\ Applied(last)
    /\ last.exc = ""
    /\ session_state.data = <<DatedTable>>
    /\ session_state.processed_data # session_state.data

\* C26: after the reset action the processed table equals the original
\* dataset, the applied-configuration record is empty and the stored analysis
\* results are as they were
C26_Reset ==
    [][ last'.action = "reset"
            => /\ session_state'.processed_data = session_state.data
               /\ session_state'.data = session_state.data
               /\ session_state'.preprocessing_config = NoRecord
               /\ session_state'.analysis_results = session_state.analysis_results ]_vars

\* a reset that has undone an applied step, with the result of an analysis
\* of the table of that step still stored
C26_Witness ==
    /\ last.action = "reset"
    /\ last.record # << >>
    /\ session_state.processed_data = session_state.data
    /\ session_state.preprocessing_config = NoRecord
    /\ \E kind \in DOMAIN session_state.analysis_results :
          /\ session_state.analysis_results[kind] # << >>
          /\ session_state.analysis_results[kind][1].table # session_state.data[1]

\* C27: loading a dataset replaces the original dataset and the processed
\* table by the dataset loaded, and leaves the applied-configuration record
\* and the stored analysis results as they were
C27_Load ==
    [][ last'.action = "load"
            => /\ session_state'.data \in { <<df>> : df \in SessionDatasets }
               /\ session_state'.processed_data = session_state'.data
               /\ session_state'.preprocessing_config = session_state.preprocessing_config
               /\ session_state'.analysis_results = session_state.analysis_results ]_vars

\* a second dataset has been loaded: the record names a step applied to the
\* first, and a stored result is one of an analysis of the first
C27_Witness ==
    /\ last.action = "load"
    /\ session_state.data = <<PairTable>>
    /\ session_state.processed_data = <<PairTable>>
    /\ session_state.preprocessing_config.order # << >>
    /\ session_state.analysis_results.time_series # << >>

\* C30: with a dataset loaded, every column of the original dataset is a
\* column of the processed table, and drawing the preprocessing page does not
\* fail
C30_ColumnsSelectable ==
    /\ session_state.data # None
           => \A c \in Range(session_state.data[1].columns) :
                 ColIn(session_state.processed_data[1], c)
    /\ last.action = "render" => last.exc = ""
====
